---- MODULE Spec2Model ----
(***************************************************************************)
(* Model of the Gene natural-language-to-SQL query engine:                 *)
(*   src/Gene/query_engine.py    OpenAISQLEngine                           *)
(*   src/Gene/database_local.py  LocalDatabaseManager                      *)
(*   src/Gene/database.py        DatabaseManager                           *)
(*                                                                         *)
(* SQL text and model completions are sequences of one-character strings,  *)
(* so that strip / upper / startswith / endswith are computed as Python    *)
(* computes them.  Messages built with f-strings are sequences of text     *)
(* fragments, so that "contains" is membership of a fragment.              *)
(* The MySQL driver and the HTTP endpoint are the environment: each call   *)
(* into them draws its outcome from a small set.                           *)
(***************************************************************************)
EXTENDS Integers, Sequences, FiniteSets, TLC

(* ------------------------------ bounds -------------------------------- *)

\* most whitespace characters put around a text
MaxPad == 1

\* most rows a fetch returns
MaxRows == 2

\* largest affected-row count the driver reports
MaxRowCount == 1

(* --------------------------- Python values ---------------------------- *)

None == [ty |-> "NoneType"]

PyList(items) == [ty |-> "list", items |-> items]

PyStr(chars) == [ty |-> "str", chars |-> chars]

\* truthiness of a value as `if x` / `x if x else y` tests it
Truthy(v) ==
    CASE v.ty = "NoneType" -> FALSE
      [] v.ty = "list" -> v.items # <<>>
      [] v.ty = "str" -> v.chars # <<>>

(* ------------------------------ strings ------------------------------- *)

\* characters str.strip() removes
Whitespace == {" ", "\n"}

ToUpper ==
    [a |-> "A", b |-> "B", c |-> "C", d |-> "D", e |-> "E", f |-> "F",
     g |-> "G", h |-> "H", i |-> "I", j |-> "J", k |-> "K", l |-> "L",
     m |-> "M", n |-> "N", o |-> "O", p |-> "P", q |-> "Q", r |-> "R",
     s |-> "S", t |-> "T", u |-> "U", v |-> "V", w |-> "W", x |-> "X",
     y |-> "Y", z |-> "Z"]

Letters == DOMAIN ToUpper \cup {ToUpper[c] : c \in DOMAIN ToUpper}

upper(s) == [i \in DOMAIN s |-> IF s[i] \in DOMAIN ToUpper THEN ToUpper[s[i]] ELSE s[i]]

RECURSIVE lstrip(_)
lstrip(s) ==
    IF s # <<>> /\ Head(s) \in Whitespace THEN lstrip(Tail(s)) ELSE s

RECURSIVE rstrip(_)
rstrip(s) ==
    IF s # <<>> /\ s[Len(s)] \in Whitespace THEN rstrip(SubSeq(s, 1, Len(s) - 1)) ELSE s

strip(s) == rstrip(lstrip(s))

startswith(s, prefix) ==
    Len(s) >= Len(prefix) /\ SubSeq(s, 1, Len(prefix)) = prefix

endswith(s, suffix) ==
    Len(s) >= Len(suffix) /\ SubSeq(s, Len(s) - Len(suffix) + 1, Len(s)) = suffix

\* s[n:]
DropFirst(s, n) == SubSeq(s, n + 1, Len(s))

\* s[:-n]
DropLast(s, n) == SubSeq(s, 1, Len(s) - n)

(* ------------------------- external call log -------------------------- *)

\* one call into the driver or the HTTP client; arg is the text sent with it
\* (the SQL of an execute, the prompt of a post) or, for a failed connect,
\* the error it raised
Call(name) == [call |-> name, arg |-> <<>>]

CallSql(name, sql) == [call |-> name, arg |-> sql]

RECURSIVE CountCalls(_, _)
CountCalls(log, name) ==
    IF log = <<>> THEN 0
    ELSE (IF Head(log).call = name THEN 1 ELSE 0) + CountCalls(Tail(log), name)

\* position of the first call of that name, 0 when there is none
RECURSIVE FirstCall(_, _)
FirstCall(log, name) ==
    IF log = <<>> THEN 0
    ELSE IF Head(log).call = name THEN 1
    ELSE IF FirstCall(Tail(log), name) = 0 THEN 0
    ELSE 1 + FirstCall(Tail(log), name)

(* ----------------------------- exceptions ----------------------------- *)

Exc(type, msg) == [type |-> type, msg |-> msg]

NoExc == Exc("none", <<>>)

\* outcome of a call: it either returns value or raises exc
Returned(value, connection, calls) ==
    [raised |-> FALSE, exc |-> NoExc, value |-> value,
     connection |-> connection, calls |-> calls]

Raised(exc, connection, calls) ==
    [raised |-> TRUE, exc |-> exc, value |-> None,
     connection |-> connection, calls |-> calls]

(* --------------------- the MySQL driver (environment) ------------------ *)

\* "SELECT" as characters
Chars_SELECT == <<"S", "E", "L", "E", "C", "T">>

Chars_SHOW == <<"S", "H", "O", "W">>

Chars_DESCRIBE == <<"D", "E", "S", "C", "R", "I", "B", "E">>

Chars_EXPLAIN == <<"E", "X", "P", "L", "A", "I", "N">>

Chars_DELETE == <<"D", "E", "L", "E", "T", "E">>

Chars_INSERT == <<"I", "N", "S", "E", "R", "T">>

Chars_DESC == <<"D", "E", "S", "C">>

\* the longest run of letters at the start of s
RECURSIVE LeadingLetters(_)
LeadingLetters(s) ==
    IF s # <<>> /\ Head(s) \in Letters
    THEN <<Head(s)>> \o LeadingLetters(Tail(s))
    ELSE <<>>

\* the statement's leading keyword: whitespace trimmed, case ignored
LeadingKeyword(sql) == upper(LeadingLetters(strip(sql)))

\* statements the server parses; anything else is a syntax error (1064)
ServerKeywords ==
    {Chars_SELECT, Chars_SHOW, Chars_DESCRIBE, Chars_EXPLAIN,
     Chars_DELETE, Chars_INSERT, Chars_DESC}

ServerParses(sql) == LeadingKeyword(sql) \in ServerKeywords

SyntaxError == <<"1064 (42000): You have an error in your SQL syntax">>

TableError == <<"1146 (42S02): Table 'employee.t' doesn't exist">>

ConnectError == <<"2003 (HY000): Can't connect to MySQL server on '127.0.0.1:3306'">>

\* a result set as the server sends it: column names and value tuples
ResultSet(columns, rows) == [columns |-> columns, rows |-> rows]

UsersRows(n) == [i \in 1..n |-> <<i, "US">>]

ResultSets ==
    {ResultSet(<<"ID", "COUNTRY">>, UsersRows(n)) : n \in 0..MaxRows}
    \cup {ResultSet(<<"user_count">>, <<<<3>>>>)}
    \cup {ResultSet(<<"affected_rows">>, <<<<k>>>>) : k \in 0..MaxRowCount}

\* a row as cursor(dictionary=True) returns it: column name -> value
DictRow(columns, row) ==
    [c \in {columns[i] : i \in DOMAIN columns} |->
        row[CHOOSE i \in DOMAIN columns : columns[i] = c]]

DictRows(rs) == [i \in DOMAIN rs.rows |-> DictRow(rs.columns, rs.rows[i])]

\* statements for which the server sends a result set
ResultKeywords == {Chars_SELECT, Chars_SHOW, Chars_DESCRIBE, Chars_EXPLAIN, Chars_DESC}

\* what the driver does with one statement: execute raises or not, the
\* result set a fetch returns, cursor.rowcount, commit raises or not.
\* rowcount is -1 while a result set is unread.  No caller both fetches and
\* commits, so a failing commit is drawn with one result set only.
DriverOutcomes(sql) ==
    IF ~ServerParses(sql)
    THEN {[execute_err |-> SyntaxError, rs |-> ResultSet(<<>>, <<>>),
           rowcount |-> 0, commit_err |-> <<>>]}
    ELSE {[execute_err |-> TableError, rs |-> ResultSet(<<>>, <<>>),
           rowcount |-> 0, commit_err |-> <<>>]}
         \cup
         (IF LeadingKeyword(sql) \in ResultKeywords
          THEN {[execute_err |-> <<>>, rs |-> rs, rowcount |-> -1, commit_err |-> <<>>] :
                  rs \in ResultSets}
               \cup {[execute_err |-> <<>>, rs |-> ResultSet(<<"ID", "COUNTRY">>, <<>>),
                      rowcount |-> -1, commit_err |-> <<"Unread result found">>]}
          ELSE {[execute_err |-> <<>>, rs |-> ResultSet(<<>>, <<>>),
                 rowcount |-> n, commit_err |-> ce] :
                  n \in 0..MaxRowCount,
                  ce \in {<<>>, <<"2013 (HY000): Lost connection to MySQL server during query">>}})

\* outcome of opening a connection: <<>> or the driver's error text
ConnectOutcomes == {<<>>, ConnectError}

(* ----------------- database_local.py: LocalDatabaseManager -------------- *)

\* LocalConfig.get_database_connection as called by __enter__
LocalDatabaseManager_enter(connection, conn_err) ==
    IF conn_err # <<>>
    THEN Raised(Exc("ConnectionError",
                    <<"Failed to connect to local MySQL database: ">> \o conn_err),
                connection, <<CallSql("connect", conn_err)>>)
    ELSE Returned(None, "open", <<Call("connect")>>)

\* __exit__ that leaves the connection as it is
LocalDatabaseManager_exit_keep(connection) ==
    [connection |-> connection, calls |-> <<>>]

\* __exit__: closes the connection when there is one and it is connected
LocalDatabaseManager_exit(connection) ==
    IF connection = "open"
    THEN [connection |-> "closed", calls |-> <<Call("close")>>]
    ELSE [connection |-> connection, calls |-> <<>>]

ReadPrefixes_local == {Chars_SELECT, Chars_SHOW, Chars_DESCRIBE, Chars_EXPLAIN}

\* the classifier without EXPLAIN
IsRead_local_no_explain(query) ==
    \E p \in {Chars_SELECT, Chars_SHOW, Chars_DESCRIBE} : startswith(upper(strip(query)), p)

IsRead_local(query) ==
    \E p \in ReadPrefixes_local : startswith(upper(strip(query)), p)

NoConnectionMsg == <<"No active database connection. Use within context manager.">>

\* execute_query that commits after every statement, reads included
LocalDatabaseManager_execute_query_commit_all(connection, query, drv) ==
    IF connection # "open"
    THEN Raised(Exc("RuntimeError", NoConnectionMsg), connection, <<>>)
    ELSE IF drv.execute_err # <<>>
    THEN Raised(Exc("RuntimeError", <<"SQL execution failed: ">> \o drv.execute_err),
                connection,
                <<Call("cursor"), CallSql("execute", query), Call("cursor.close")>>)
    ELSE IF IsRead_local(query)
    THEN Returned(PyList(DictRows(drv.rs)), connection,
                  <<Call("cursor"), CallSql("execute", query), Call("fetchall"),
                    Call("commit"), Call("cursor.close")>>)
    ELSE IF drv.commit_err # <<>>
    THEN Raised(Exc("RuntimeError", <<"SQL execution failed: ">> \o drv.commit_err),
                connection,
                <<Call("cursor"), CallSql("execute", query), Call("commit"),
                  Call("cursor.close")>>)
    ELSE Returned(PyList(<<[affected_rows |-> drv.rowcount]>>), connection,
                  <<Call("cursor"), CallSql("execute", query), Call("commit"),
                    Call("cursor.close")>>)

\* execute_query whose except clause raises a fixed text, without the driver's
LocalDatabaseManager_execute_query_no_text(connection, query, drv) ==
    IF connection # "open"
    THEN Raised(Exc("RuntimeError", NoConnectionMsg), connection, <<>>)
    ELSE IF drv.execute_err # <<>>
    THEN Raised(Exc("RuntimeError", <<"SQL execution failed">>), connection,
                <<Call("cursor"), CallSql("execute", query), Call("cursor.close")>>)
    ELSE IF IsRead_local(query)
    THEN Returned(PyList(DictRows(drv.rs)), connection,
                  <<Call("cursor"), CallSql("execute", query), Call("fetchall"),
                    Call("cursor.close")>>)
    ELSE IF drv.commit_err # <<>>
    THEN Raised(Exc("RuntimeError", <<"SQL execution failed">>), connection,
                <<Call("cursor"), CallSql("execute", query), Call("commit"),
                  Call("cursor.close")>>)
    ELSE Returned(PyList(<<[affected_rows |-> drv.rowcount]>>), connection,
                  <<Call("cursor"), CallSql("execute", query), Call("commit"),
                    Call("cursor.close")>>)

LocalDatabaseManager_execute_query(connection, query, drv) ==
    IF connection # "open"
    THEN Raised(Exc("RuntimeError", NoConnectionMsg), connection, <<>>)
    ELSE IF drv.execute_err # <<>>
    THEN Raised(Exc("RuntimeError", <<"SQL execution failed: ">> \o drv.execute_err),
                connection,
                <<Call("cursor"), CallSql("execute", query), Call("cursor.close")>>)
    ELSE IF IsRead_local(query)
    THEN Returned(PyList(DictRows(drv.rs)), connection,
                  <<Call("cursor"), CallSql("execute", query), Call("fetchall"),
                    Call("cursor.close")>>)
    ELSE IF drv.commit_err # <<>>
    THEN Raised(Exc("RuntimeError", <<"SQL execution failed: ">> \o drv.commit_err),
                connection,
                <<Call("cursor"), CallSql("execute", query), Call("commit"),
                  Call("cursor.close")>>)
    ELSE Returned(PyList(<<[affected_rows |-> drv.rowcount]>>), connection,
                  <<Call("cursor"), CallSql("execute", query), Call("commit"),
                    Call("cursor.close")>>)

(* -------- database_local.py: LocalDatabaseManager.get_table_info -------- *)

\* the database's tables as SHOW TABLES / DESCRIBE report them
Column(field, type) ==
    [Field |-> field, Type |-> type, Null |-> "NO", Key |-> "", Default |-> "NULL",
     Extra |-> ""]

Table_USERS ==
    [name |-> "USERS", columns |-> <<Column("ID", "int"), Column("COUNTRY", "varchar")>>]

Table_WORKORDER ==
    [name |-> "WORKORDER", columns |-> <<Column("ORGID", "varchar")>>]

Schemas == {<<>>, <<Table_USERS, Table_WORKORDER>>}

\* outcome of the metadata queries: <<>> or the driver's error text
IntrospectOutcomes == {<<>>, <<"1142 (42000): SHOW command denied to user 'newuser'">>}

formatted_columns(columns) ==
    [i \in DOMAIN columns |->
        [name |-> columns[i].Field, type |-> columns[i].Type, null |-> columns[i].Null,
         key |-> columns[i].Key, default |-> columns[i].Default,
         extra |-> columns[i].Extra]]

\* the calls DESCRIBE-ing every table makes
DescribeCalls(db) ==
    [i \in 1..(2 * Len(db)) |->
        IF i % 2 = 1 THEN CallSql("execute", <<"DESCRIBE ", db[(i + 1) \div 2].name>>)
        ELSE Call("fetchall")]

\* the returned dict, in insertion order: table_name -> formatted columns
LocalDatabaseManager_get_table_info(connection, db, introspect_err) ==
    IF connection # "open"
    THEN Raised(Exc("RuntimeError", NoConnectionMsg), connection, <<>>)
    ELSE IF introspect_err # <<>>
    THEN Raised(Exc("RuntimeError", <<"Failed to get table info: ">> \o introspect_err),
                connection,
                <<Call("cursor"), CallSql("execute", <<"SHOW TABLES">>),
                  Call("cursor.close")>>)
    ELSE Returned([ty |-> "dict",
                   items |-> [i \in DOMAIN db |->
                                [table_name |-> db[i].name,
                                 columns |-> formatted_columns(db[i].columns)]]],
                  connection,
                  <<Call("cursor"), CallSql("execute", <<"SHOW TABLES">>), Call("fetchall")>>
                  \o DescribeCalls(db) \o <<Call("cursor.close")>>)

(* ------- database_local.py: LocalDatabaseManager.get_database_info ------ *)

\* get_database_info that opens a connection when the manager has none
LocalDatabaseManager_get_database_info_connecting(connection, db, info_err) ==
    IF info_err # <<>>
    THEN Raised(Exc("RuntimeError", <<"Failed to get database info: ">> \o info_err),
                "open",
                (IF connection # "open" THEN <<Call("connect")>> ELSE <<>>)
                \o <<Call("cursor"), CallSql("execute", <<"SELECT VERSION() AS version">>),
                     Call("cursor.close")>>)
    ELSE Returned([ty |-> "dict", mysql_version |-> "8.0.36", current_database |-> "employee",
                   table_count |-> Len(db)],
                  "open",
                  (IF connection # "open" THEN <<Call("connect")>> ELSE <<>>)
                  \o <<Call("cursor"),
                       CallSql("execute", <<"SELECT VERSION() AS version">>), Call("fetchone"),
                       CallSql("execute", <<"SELECT DATABASE() AS current_db">>), Call("fetchone"),
                       CallSql("execute", <<"SHOW TABLES">>), Call("fetchall"),
                       Call("cursor.close")>>)

\* info_err: <<>> or the text of the driver's error on the first statement
LocalDatabaseManager_get_database_info(connection, db, info_err) ==
    IF connection # "open"
    THEN Raised(Exc("RuntimeError", NoConnectionMsg), connection, <<>>)
    ELSE IF info_err # <<>>
    THEN Raised(Exc("RuntimeError", <<"Failed to get database info: ">> \o info_err),
                connection,
                <<Call("cursor"), CallSql("execute", <<"SELECT VERSION() AS version">>),
                  Call("cursor.close")>>)
    ELSE Returned([ty |-> "dict", mysql_version |-> "8.0.36", current_database |-> "employee",
                   table_count |-> Len(db)],
                  connection,
                  <<Call("cursor"),
                    CallSql("execute", <<"SELECT VERSION() AS version">>), Call("fetchone"),
                    CallSql("execute", <<"SELECT DATABASE() AS current_db">>), Call("fetchone"),
                    CallSql("execute", <<"SHOW TABLES">>), Call("fetchall"),
                    Call("cursor.close")>>)

(* ------------------ query_engine.py: OpenAISQLEngine ------------------- *)

\* sep.join(parts) over fragment sequences
RECURSIVE Join(_, _)
Join(parts, sep) ==
    IF parts = <<>> THEN <<>>
    ELSE IF Len(parts) = 1 THEN Head(parts)
    ELSE Head(parts) \o sep \o Join(Tail(parts), sep)

column_info(columns) ==
    [i \in DOMAIN columns |-> <<columns[i].name, " (", columns[i].type, ")">>]

schema_parts(tables) ==
    [i \in DOMAIN tables |->
        <<"Table ", tables[i].table_name, ": ">>
        \o Join(column_info(tables[i].columns), <<", ">>)]

ErrorLoadingSchema == "Error loading schema: "

\* an engine-level outcome also carries what the executor did, if it ran
NoExec == [ran |-> FALSE]

Exec(query, drv, out) == [ran |-> TRUE, query |-> query, drv |-> drv, out |-> out]

EngineReturned(response, connection, calls, exec) ==
    [raised |-> FALSE, exc |-> NoExc, value |-> response,
     connection |-> connection, calls |-> calls, exec |-> exec]

EngineRaised(exc, connection, calls, exec) ==
    [raised |-> TRUE, exc |-> exc, value |-> None,
     connection |-> connection, calls |-> calls, exec |-> exec]

\* _build_schema_context without its try / except: a failure is raised
_build_schema_context_raising(connection, db, conn_err, introspect_err) ==
    LET ent == LocalDatabaseManager_enter(connection, conn_err) IN
    IF ent.raised
    THEN EngineRaised(ent.exc, ent.connection, ent.calls, NoExec)
    ELSE LET info == LocalDatabaseManager_get_table_info(ent.connection, db, introspect_err)
             ext == LocalDatabaseManager_exit(info.connection)
             calls == ent.calls \o info.calls \o ext.calls
         IN IF info.raised
            THEN EngineRaised(info.exc, ext.connection, calls, NoExec)
            ELSE EngineReturned(<<"Available tables and columns:\n">>
                                \o Join(schema_parts(info.value.items), <<"\n">>),
                                ext.connection, calls, NoExec)

\* value is the new schema_context
_build_schema_context(connection, db, conn_err, introspect_err) ==
    LET ent == LocalDatabaseManager_enter(connection, conn_err) IN
    IF ent.raised
    THEN EngineReturned(<<ErrorLoadingSchema>> \o ent.exc.msg, ent.connection,
                        ent.calls, NoExec)
    ELSE LET info == LocalDatabaseManager_get_table_info(ent.connection, db, introspect_err)
             ext == LocalDatabaseManager_exit(info.connection)
             calls == ent.calls \o info.calls \o ext.calls
         IN IF info.raised
            THEN EngineReturned(<<ErrorLoadingSchema>> \o info.exc.msg, ext.connection,
                                calls, NoExec)
            ELSE EngineReturned(<<"Available tables and columns:\n">>
                                \o Join(schema_parts(info.value.items), <<"\n">>),
                                ext.connection, calls, NoExec)

\* LocalConfig.OPENAI_API_KEY as shipped
LocalConfig_OPENAI_API_KEY == ""

\* explicit parameter > config file > environment variable; "" is no key
resolve_api_key(api_key, env_key) ==
    IF api_key # "" THEN api_key
    ELSE IF LocalConfig_OPENAI_API_KEY # "" THEN LocalConfig_OPENAI_API_KEY
    ELSE env_key

\* use_ai after the constructor's check for a key
resolve_use_ai(use_ai, api_key) ==
    IF use_ai /\ api_key = "" THEN FALSE ELSE use_ai

(* ------------- _generate_sql_with_openai: the HTTP client -------------- *)

\* the backquote character (a string of the module cannot hold it)
Backquote == "<backquote>"

Fence == <<Backquote, Backquote, Backquote>>

Fence_sql == Fence \o <<"s", "q", "l">>

\* the clean-up that removes three characters of a ```sql opener
clean_sql_short_opener(content) ==
    LET s0 == strip(content)
        s1 == IF startswith(s0, Fence_sql) THEN DropFirst(s0, 3) ELSE s0
        s2 == IF startswith(s1, Fence) THEN DropFirst(s1, 3) ELSE s1
        s3 == IF endswith(s2, Fence) THEN DropLast(s2, 3) ELSE s2
    IN strip(s3)

\* lines 132-142: the completion text to the SQL that is returned
clean_sql(content) ==
    LET s0 == strip(content)
        s1 == IF startswith(s0, Fence_sql) THEN DropFirst(s0, 6) ELSE s0
        s2 == IF startswith(s1, Fence) THEN DropFirst(s1, 3) ELSE s1
        s3 == IF endswith(s2, Fence) THEN DropLast(s2, 3) ELSE s2
    IN strip(s3)

system_prompt(schema_context) ==
    <<"You are a MySQL expert. Convert natural language queries to SQL.\n\n">>
    \o schema_context
    \o <<"\n\nRules:\n1. Return ONLY the SQL query, no explanations\n", "Example:\n">>

user_message(natural_query) == <<"Convert this to SQL: ">> \o natural_query

\* what the endpoint does with one request
Http(kind, text) == [kind |-> kind, text |-> text]

\* the body of the try block: the value it computes or the exception it raises
\*   network, timeout : requests.post raises a RequestException
\*   status           : a response whose status_code is not 200
\*   badjson_requests : response.json() raises requests' JSONDecodeError
\*   badjson_value    : response.json() raises a ValueError (older requests)
\*   nochoices        : the body has no 'choices' key
\*   emptychoices     : 'choices' is an empty list
\*   ok               : text is the completion's content
try_generate(http) ==
    CASE http.kind \in {"network", "timeout", "badjson_requests"} ->
            Raised(Exc("RequestException", http.text), "None", <<>>)
      [] http.kind = "status" ->
            Raised(Exc("Exception", <<"OpenAI API error: ", "500", " - ">> \o http.text),
                   "None", <<>>)
      [] http.kind = "badjson_value" ->
            Raised(Exc("ValueError", http.text), "None", <<>>)
      [] http.kind = "nochoices" ->
            Raised(Exc("KeyError", http.text), "None", <<>>)
      [] http.kind = "emptychoices" ->
            Raised(Exc("IndexError", http.text), "None", <<>>)
      [] http.kind = "ok" ->
            Returned(PyStr(clean_sql(http.text)), "None", <<>>)

\* except clauses whose last one drops the text of what it caught
generate_except_bare(exc) ==
    IF exc.type = "RequestException"
    THEN Exc("Exception", <<"Network error calling OpenAI API: ">> \o exc.msg)
    ELSE IF exc.type = "KeyError"
    THEN Exc("Exception", <<"Unexpected OpenAI API response format: ">> \o exc.msg)
    ELSE Exc("Exception", <<"Error generating SQL with OpenAI">>)

\* the except clauses, in order
generate_except(exc) ==
    IF exc.type = "RequestException"
    THEN Exc("Exception", <<"Network error calling OpenAI API: ">> \o exc.msg)
    ELSE IF exc.type = "KeyError"
    THEN Exc("Exception", <<"Unexpected OpenAI API response format: ">> \o exc.msg)
    ELSE Exc("Exception", <<"Error generating SQL with OpenAI: ">> \o exc.msg)

\* _generate_sql_with_openai that sends the request again when it failed
_generate_sql_with_openai_retry(api_key, schema_context, natural_query, http) ==
    IF api_key = ""
    THEN Raised(Exc("Exception", <<"OpenAI API key not available">>), "None", <<>>)
    ELSE LET post == <<CallSql("post", system_prompt(schema_context)
                                       \o user_message(natural_query))>>
             body == try_generate(http)
         IN IF body.raised
            THEN Raised(generate_except(body.exc), "None", post \o post)
            ELSE Returned(body.value, "None", post)

_generate_sql_with_openai(api_key, schema_context, natural_query, http) ==
    IF api_key = ""
    THEN Raised(Exc("Exception", <<"OpenAI API key not available">>), "None", <<>>)
    ELSE LET post == <<CallSql("post", system_prompt(schema_context)
                                       \o user_message(natural_query))>>
             body == try_generate(http)
         IN IF body.raised
            THEN Raised(generate_except(body.exc), "None", post)
            ELSE Returned(body.value, "None", post)

(* ----------------------- the public operations ------------------------- *)

\* lines 202-208: the response of a statement that executed
sql_success_response(results, sql_query, natural_query) ==
    [success |-> TRUE, data |-> results, sql_query |-> sql_query,
     natural_query |-> natural_query,
     row_count |-> IF Truthy(results) THEN Len(results.items) ELSE 0]

\* a failure response that keeps an empty result list as data
sql_failure_response_with_data(exc, sql_query, natural_query) ==
    [success |-> FALSE, error |-> <<"Database error: ">> \o exc.msg,
     sql_query |-> sql_query, natural_query |-> natural_query, data |-> PyList(<<>>)]

\* lines 210-217: except Exception as e
sql_failure_response(exc, sql_query, natural_query) ==
    [success |-> FALSE, error |-> <<"Database error: ">> \o exc.msg,
     sql_query |-> sql_query, natural_query |-> natural_query, data |-> None]

\* execute_sql_query whose except clause catches the driver's errors only:
\* what the managers raise (ConnectionError, RuntimeError) passes through
execute_sql_query_uncaught(connection, sql_query, natural_query, conn_err, drv) ==
    LET ent == LocalDatabaseManager_enter(connection, conn_err) IN
    IF ent.raised
    THEN EngineRaised(ent.exc, ent.connection, ent.calls, NoExec)
    ELSE LET ex == LocalDatabaseManager_execute_query(ent.connection, sql_query, drv)
             ext == LocalDatabaseManager_exit(ex.connection)
             calls == ent.calls \o ex.calls \o ext.calls
         IN IF ex.raised
            THEN EngineRaised(ex.exc, ext.connection, calls, Exec(sql_query, drv, ex))
            ELSE EngineReturned(sql_success_response(ex.value, sql_query, natural_query),
                                ext.connection, calls, Exec(sql_query, drv, ex))

\* execute_sql_query that upper-cases the statement before it runs it
execute_sql_query_normalised(connection, sql_query, natural_query, conn_err, drv) ==
    LET ent == LocalDatabaseManager_enter(connection, conn_err) IN
    IF ent.raised
    THEN EngineReturned(sql_failure_response(ent.exc, sql_query, natural_query),
                        ent.connection, ent.calls, NoExec)
    ELSE LET ex == LocalDatabaseManager_execute_query(ent.connection, upper(sql_query),
                                                      drv)
             ext == LocalDatabaseManager_exit(ex.connection)
             calls == ent.calls \o ex.calls \o ext.calls
         IN IF ex.raised
            THEN EngineReturned(sql_failure_response(ex.exc, sql_query, natural_query),
                                ext.connection, calls,
                                Exec(upper(sql_query), drv, ex))
            ELSE EngineReturned(sql_success_response(ex.value, sql_query, natural_query),
                                ext.connection, calls,
                                Exec(upper(sql_query), drv, ex))

execute_sql_query(connection, sql_query, natural_query, conn_err, drv) ==
    LET ent == LocalDatabaseManager_enter(connection, conn_err) IN
    IF ent.raised
    THEN EngineReturned(sql_failure_response(ent.exc, sql_query, natural_query),
                        ent.connection, ent.calls, NoExec)
    ELSE LET ex == LocalDatabaseManager_execute_query(ent.connection, sql_query, drv)
             ext == LocalDatabaseManager_exit(ex.connection)
             calls == ent.calls \o ex.calls \o ext.calls
         IN IF ex.raised
            THEN EngineReturned(sql_failure_response(ex.exc, sql_query, natural_query),
                                ext.connection, calls, Exec(sql_query, drv, ex))
            ELSE EngineReturned(sql_success_response(ex.value, sql_query, natural_query),
                                ext.connection, calls, Exec(sql_query, drv, ex))

AINotAvailable ==
    <<"AI functionality not available. Use execute_sql_query() for direct SQL.">>

\* lines 179-185: except Exception as e
natural_failure_response(exc, natural_query) ==
    [success |-> FALSE,
     error |-> <<"Error processing natural language query: ">> \o exc.msg,
     data |-> None, natural_query |-> PyStr(natural_query)]

\* execute_natural_query without the use_ai test of lines 162-167
execute_natural_query_unguarded(self, natural_query, http, conn_err, drv) ==
    LET gen == _generate_sql_with_openai(self.api_key, self.schema_context,
                                         natural_query, http)
    IN IF gen.raised
       THEN EngineReturned(natural_failure_response(gen.exc, natural_query),
                           self.connection, gen.calls, NoExec)
       ELSE LET run == execute_sql_query(self.connection, gen.value.chars,
                                         PyStr(natural_query), conn_err, drv)
            IN IF run.raised
               THEN EngineReturned(natural_failure_response(run.exc, natural_query),
                                   run.connection, gen.calls \o run.calls, run.exec)
               ELSE [run EXCEPT !.calls = gen.calls \o run.calls]

\* self holds the engine's fields: use_ai, api_key, schema_context and
\* db_manager.connection
execute_natural_query(self, natural_query, http, conn_err, drv) ==
    IF ~self.use_ai
    THEN EngineReturned([success |-> FALSE, error |-> AINotAvailable, data |-> None],
                        self.connection, <<>>, NoExec)
    ELSE LET gen == _generate_sql_with_openai(self.api_key, self.schema_context,
                                              natural_query, http)
         IN IF gen.raised
            THEN EngineReturned(natural_failure_response(gen.exc, natural_query),
                                self.connection, gen.calls, NoExec)
            ELSE LET run == execute_sql_query(self.connection, gen.value.chars,
                                              PyStr(natural_query), conn_err, drv)
                 IN IF run.raised
                    THEN EngineReturned(natural_failure_response(run.exc, natural_query),
                                        run.connection, gen.calls \o run.calls, run.exec)
                    ELSE [run EXCEPT !.calls = gen.calls \o run.calls]

Digits == <<"0", "1", "2", "3", "4", "5", "6", "7", "8", "9">>

\* str(n) for n >= 0
RECURSIVE IntStr(_)
IntStr(n) ==
    IF n < 10 THEN <<Digits[n + 1]>> ELSE IntStr(n \div 10) \o <<Digits[(n % 10) + 1]>>

\* f"SELECT * FROM {table_name} LIMIT {limit}"
preview_sql(table_name, limit) ==
    Chars_SELECT \o <<" ", "*", " ", "F", "R", "O", "M", " ">> \o table_name
    \o <<" ", "L", "I", "M", "I", "T", " ">> \o IntStr(limit)

get_table_preview(connection, table_name, limit, conn_err, drv) ==
    execute_sql_query(connection, preview_sql(table_name, limit), None, conn_err, drv)

\* list(tables.keys())
table_names(tables) == [i \in DOMAIN tables.items |-> tables.items[i].table_name]

\* list_tables that lists the tables on a manager's first connection only:
\* on a manager that has held a connection before it reports none
list_tables_first_connection(connection, db, conn_err, introspect_err) ==
    LET ent == LocalDatabaseManager_enter(connection, conn_err) IN
    IF ent.raised
    THEN EngineReturned([success |-> FALSE,
                         error |-> <<"Error listing tables: ">> \o ent.exc.msg,
                         data |-> None],
                        ent.connection, ent.calls, NoExec)
    ELSE LET seen == IF connection = "None" THEN db ELSE <<>>
             info == LocalDatabaseManager_get_table_info(ent.connection, seen,
                                                         introspect_err)
             ext == LocalDatabaseManager_exit(info.connection)
             calls == ent.calls \o info.calls \o ext.calls
         IN IF info.raised
            THEN EngineReturned([success |-> FALSE,
                                 error |-> <<"Error listing tables: ">> \o info.exc.msg,
                                 data |-> None],
                                ext.connection, calls, NoExec)
            ELSE EngineReturned([success |-> TRUE,
                                 data |-> PyList(table_names(info.value)),
                                 table_info |-> info.value],
                                ext.connection, calls, NoExec)

list_tables(connection, db, conn_err, introspect_err) ==
    LET ent == LocalDatabaseManager_enter(connection, conn_err) IN
    IF ent.raised
    THEN EngineReturned([success |-> FALSE,
                         error |-> <<"Error listing tables: ">> \o ent.exc.msg,
                         data |-> None],
                        ent.connection, ent.calls, NoExec)
    ELSE LET info == LocalDatabaseManager_get_table_info(ent.connection, db, introspect_err)
             ext == LocalDatabaseManager_exit(info.connection)
             calls == ent.calls \o info.calls \o ext.calls
         IN IF info.raised
            THEN EngineReturned([success |-> FALSE,
                                 error |-> <<"Error listing tables: ">> \o info.exc.msg,
                                 data |-> None],
                                ext.connection, calls, NoExec)
            ELSE EngineReturned([success |-> TRUE,
                                 data |-> PyList(table_names(info.value)),
                                 table_info |-> info.value],
                                ext.connection, calls, NoExec)

(* ------------------- query_engine.py: format_results ------------------- *)

\* format_results returns one string: here the sequence of its characters,
\* where a literal of the source or an error message is one element and every
\* newline is an element of its own.

\* the characters of the column names and of the text values of the rows
Chars ==
    [ID |-> <<"I", "D">>,
     COUNTRY |-> <<"C", "O", "U", "N", "T", "R", "Y">>,
     user_count |-> <<"u", "s", "e", "r", "_", "c", "o", "u", "n", "t">>,
     affected_rows |-> <<"a", "f", "f", "e", "c", "t", "e", "d", "_", "r", "o", "w", "s">>,
     US |-> <<"U", "S">>]

\* the columns whose values are str; the values of the others are int
TextColumns == {"COUNTRY"}

\* the order in which the server sends the columns, which is the order of a
\* row's keys
ColumnOrder == <<"ID", "COUNTRY", "user_count", "affected_rows">>

\* list(row.keys())
keys(row) == SelectSeq(ColumnOrder, LAMBDA c : c \in DOMAIN row)

\* str(n) for an int
str_int(n) == IF n < 0 THEN <<"-">> \o IntStr(-n) ELSE IntStr(n)

\* str(row.get(col, ''))
str_cell(row, col) ==
    IF col \notin DOMAIN row THEN <<>>
    ELSE IF col \in TextColumns THEN Chars[row[col]]
    ELSE str_int(row[col])

\* s.ljust(width)
ljust(s, width) ==
    IF width > Len(s) THEN s \o [i \in 1..(width - Len(s)) |-> " "] ELSE s

\* data[:k]
slice_to(data, k) ==
    IF k >= 0 THEN SubSeq(data, 1, IF k < Len(data) THEN k ELSE Len(data))
    ELSE SubSeq(data, 1, Len(data) + k)

\* max(xs) over a non-empty set of numbers
Max(xs) == CHOOSE x \in xs : \A y \in xs : y <= x

\* one width for all columns: that of the widest
col_width_global(display_data, col) ==
    Max(UNION {{Len(Chars[c]),
                Max({Len(str_cell(display_data[i], c)) : i \in DOMAIN display_data})} :
               c \in DOMAIN display_data[1]})

\* col_widths[col]
col_width(display_data, col) ==
    Max({Len(Chars[col]),
         Max({Len(str_cell(display_data[i], col)) : i \in DOMAIN display_data})})

\* " | ".join(cells)
join_cells(cells) == Join(cells, <<" ", "|", " ">>)

header_line(display_data, columns) ==
    join_cells([j \in DOMAIN columns |->
                   ljust(Chars[columns[j]], col_width(display_data, columns[j]))])

row_line(display_data, columns, row) ==
    join_cells([j \in DOMAIN columns |->
                   ljust(str_cell(row, columns[j]), col_width(display_data, columns[j]))])

\* lines 258-275: header, rule and one line per displayed row
table_lines(display_data) ==
    LET columns == keys(display_data[1])
        header == header_line(display_data, columns)
    IN <<header, [i \in 1..Len(header) |-> "-"]>>
       \o [i \in DOMAIN display_data |-> row_line(display_data, columns, display_data[i])]

\* lines 279-284: the summary appended to the table
summary(total_rows, max_rows) ==
    IF total_rows > max_rows
    THEN <<"\n", "\n", "... showing ">> \o str_int(max_rows) \o <<" of ">>
         \o str_int(total_rows) \o <<" rows">>
    ELSE <<"\n", "\n", "Total rows: ">> \o str_int(total_rows)

\* results.get(key): None when the key is missing
get(results, key) == IF key \in DOMAIN results THEN results[key] ELSE None

\* format_results that renders the rows of any response that carries some,
\* before it looks at success
format_results_rows_first(results, max_rows) ==
    LET data == get(results, "data") IN
    IF Truthy(data)
    THEN LET display_data ==
                 IF Len(data.items) > max_rows THEN slice_to(data.items, max_rows)
                 ELSE data.items
         IN IF display_data = <<>>
            THEN <<"No results to display.">>
            ELSE Join(table_lines(display_data), <<"\n">>)
                 \o summary(Len(data.items), max_rows)
    ELSE IF ~("success" \in DOMAIN results /\ results.success)
    THEN <<"<cross mark> Error: ">>
         \o (IF "error" \in DOMAIN results THEN results.error ELSE <<"Unknown error">>)
    ELSE <<"No results found.">>

format_results(results, max_rows) ==
    IF ~("success" \in DOMAIN results /\ results.success)
    THEN <<"<cross mark> Error: ">>
         \o (IF "error" \in DOMAIN results THEN results.error ELSE <<"Unknown error">>)
    ELSE LET data == get(results, "data") IN
    IF ~Truthy(data)
    THEN <<"No results found.">>
    ELSE LET display_data ==
                 IF Len(data.items) > max_rows THEN slice_to(data.items, max_rows)
                 ELSE data.items
         IN IF display_data = <<>>
            THEN <<"No results to display.">>
            ELSE Join(table_lines(display_data), <<"\n">>)
                 \o summary(Len(data.items), max_rows)

\* the rows of a response are dicts; the names a listing carries are str,
\* and list_tables alone returns a response with table_info
RowsAreDicts(results) == "table_info" \notin DOMAIN results

\* format_results as its caller sees it: display_data[0].keys() raises
\* AttributeError when the first item is a str
format_results_call(results, max_rows) ==
    LET data == get(results, "data")
        display_data ==
            IF Len(data.items) > max_rows THEN slice_to(data.items, max_rows)
            ELSE data.items
    IN IF /\ "success" \in DOMAIN results /\ results.success
          /\ Truthy(data)
          /\ display_data # <<>>
          /\ ~RowsAreDicts(results)
       THEN [raised |-> TRUE, out |-> <<>>,
             exc |-> Exc("AttributeError", <<"'str' object has no attribute 'keys'">>)]
       ELSE [raised |-> FALSE, out |-> format_results(results, max_rows), exc |-> NoExc]

(* --------------------- database.py: DatabaseManager -------------------- *)

IsRead_remote(query) ==
    \/ startswith(upper(strip(query)), Chars_SELECT)
    \/ startswith(upper(strip(query)), Chars_SHOW)
    \/ startswith(upper(strip(query)), Chars_DESCRIBE)

\* connects by itself when there is no live connection; the rows are tuples
DatabaseManager_execute_query(connection, query, conn_err, drv) ==
    IF connection # "open" /\ conn_err # <<>>
    THEN Raised(Exc("ConnectionError",
                    <<"Failed to connect to MySQL database: ">> \o conn_err),
                connection, <<CallSql("connect", conn_err)>>)
    ELSE LET pre == IF connection # "open" THEN <<Call("connect")>> ELSE <<>> IN
    IF drv.execute_err # <<>>
    THEN Raised(Exc("Exception", <<"Database error: ">> \o drv.execute_err), "open",
                pre \o <<Call("cursor"), CallSql("execute", query), Call("cursor.close")>>)
    ELSE IF IsRead_remote(query)
    THEN Returned([ty |-> "dict", columns |-> drv.rs.columns, data |-> drv.rs.rows],
                  "open",
                  pre \o <<Call("cursor"), CallSql("execute", query), Call("fetchall"),
                           Call("cursor.close")>>)
    ELSE IF drv.commit_err # <<>>
    THEN Raised(Exc("Exception", <<"Database error: ">> \o drv.commit_err), "open",
                pre \o <<Call("cursor"), CallSql("execute", query), Call("commit"),
                         Call("cursor.close")>>)
    ELSE Returned([ty |-> "dict", affected_rows |-> drv.rowcount], "open",
                  pre \o <<Call("cursor"), CallSql("execute", query), Call("commit"),
                           Call("cursor.close")>>)

(* ------------------------------- inputs -------------------------------- *)

\* the whitespace runs of at most MaxPad characters
Pads == UNION {{<<>> \o f : f \in [1..n -> Whitespace]} : n \in 0..MaxPad}

\* whitespace after a statement, and around a fenced completion
OuterPads == {<<>>, <<" ", "\n">>}

Words ==
    {Chars_SELECT, <<"s", "e", "l", "e", "c", "t">>, <<"S", "h", "o", "w">>,
     <<"d", "e", "s", "c", "r", "i", "b", "e">>, Chars_EXPLAIN,
     <<"i", "n", "s", "e", "r", "t">>, Chars_DESC, Chars_SELECT \o <<"E", "D">>}

\* the statements handed to the executors
SqlStatements ==
    {p \o w \o <<" ", "t">> \o q : p \in Pads, q \in OuterPads, w \in Words}

\* the SQL texts a completion carries
CompletionTexts ==
    {<<"d", "e", "l", "e", "t", "e", " ", "t">>,
     Chars_SELECT \o <<" ", Backquote, "t", Backquote>>}

\* T inside a ```sql / ``` pair, whitespace around the pair and around T
SqlFenced(T) ==
    {p \o Fence_sql \o p2 \o T \o p3 \o Fence \o q :
        p \in OuterPads, q \in OuterPads, p2 \in Pads, p3 \in Pads}

\* T inside a bare pair of fences
BareFenced(T) == {Fence \o p2 \o T \o p3 \o Fence : p2 \in Pads, p3 \in Pads}

Completions ==
    UNION {{p \o T \o p : p \in Pads} \cup SqlFenced(T) \cup BareFenced(T) :
           T \in CompletionTexts}

HttpOutcomes ==
    {Http("network", <<"HTTPSConnectionPool(host='api.openai.com'): Max retries exceeded">>),
     Http("timeout", <<"Read timed out. (read timeout=30)">>),
     Http("status", <<"{\"error\": \"invalid_api_key\"}">>),
     Http("badjson_requests", <<"Expecting value: line 1 column 1 (char 0)">>),
     Http("badjson_value", <<"Expecting value: line 1 column 1 (char 0)">>),
     Http("nochoices", <<"'choices'">>),
     Http("emptychoices", <<"list index out of range">>)}
    \cup {Http("ok", c) : c \in Completions}

NaturalQueries == {<<"How many users are there?">>}

ApiKeys == {"", "sk-param"}

EnvKeys == {"", "sk-env"}

PreviewTables == {<<"t">>, <<"U", "S", "E", "R", "S">>}

PreviewLimits == {1, 5}

(* ------------------------------- state --------------------------------- *)

VARIABLES
    db,              \* the database's tables
    phase,           \* "Uninitialized" or "Ready"
    use_ai,          \* OpenAISQLEngine.use_ai
    api_key,         \* OpenAISQLEngine.api_key
    schema_context,  \* OpenAISQLEngine.schema_context
    connection,      \* OpenAISQLEngine.db_manager.connection: "None" | "open" | "closed"
    op,              \* the last operation called
    args,            \* its arguments and what the endpoint answered
    response,        \* what it returned
    escaped,         \* the exception that reached its caller, NoExc when none
    calls,           \* the driver and HTTP calls it made, in order
    exec,            \* what the executor did in it
    formatted,       \* what format_results made of a response
    last_listing,    \* the listing the caller last read, while the tables stay
    built_context,   \* the schema text the constructor computed
    pulls,           \* the repository's pull requests, by number
    agent,           \* the last run of the PR agent and of its assistant
    loop             \* the interactive loop: its input stream and where it is

vars ==
    <<db, phase, use_ai, api_key, schema_context, connection,
      op, args, response, escaped, calls, exec,
      formatted, last_listing, built_context, pulls, agent, loop>>

\* the state of the PR scripts and of the interactive loop
outside == <<pulls, agent, loop>>

\* the PR scripts have not run, the loop has not started
NoRun == [event |-> "none"]

NoLoop == [pc |-> "none"]

Quiet ==
    /\ pulls = <<>>
    /\ agent = NoRun
    /\ loop = NoLoop

engine == <<phase, use_ai, api_key, schema_context>>

Self ==
    [use_ai |-> use_ai, api_key |-> api_key, schema_context |-> schema_context,
     connection |-> connection]

NoArgs == [none |-> TRUE]

\* format_results has not been called
NotFormatted == [called |-> FALSE]

\* the caller has read no listing of the tables as they are now
NoListing == [ty |-> "NoneType"]

Init ==
    /\ db \in Schemas
    /\ phase = "Uninitialized"
    /\ use_ai = FALSE
    /\ api_key = ""
    /\ schema_context = <<>>
    /\ connection = "None"
    /\ op = "none"
    /\ args = NoArgs
    /\ response = None
    /\ escaped = NoExc
    /\ calls = <<>>
    /\ exec = NoExec
    /\ formatted = NotFormatted
    /\ last_listing = NoListing
    /\ built_context = <<>>
    /\ Quiet

\* what every operation does with its outcome
Finish(name, a, out) ==
    /\ op' = name
    /\ args' = a
    /\ response' = out.value
    /\ escaped' = out.exc
    /\ calls' = out.calls
    /\ exec' = out.exec
    /\ connection' = out.connection

\* an operation is called once the caller has taken the result of the one before
Idle == op = "none"

\* OpenAISQLEngine(api_key, use_ai=...) with OPENAI_API_KEY = env_key
Construct ==
    /\ Idle
    /\ phase = "Uninitialized"
    /\ \E key \in ApiKeys, env_key \in EnvKeys, ai \in BOOLEAN,
          conn_err \in ConnectOutcomes, introspect_err \in IntrospectOutcomes :
        LET k == resolve_api_key(key, env_key)
            ctx == _build_schema_context("None", db, conn_err, introspect_err)
        IN /\ api_key' = k
           /\ use_ai' = resolve_use_ai(ai, k)
           /\ IF ctx.raised
              THEN /\ phase' = "Uninitialized"
                   /\ schema_context' = <<>>
              ELSE /\ phase' = "Ready"
                   /\ schema_context' = ctx.value
           /\ built_context' = (IF ctx.raised THEN <<>> ELSE ctx.value)
           /\ Finish("__init__", [api_key |-> key, env_key |-> env_key, use_ai |-> ai],
                     [ctx EXCEPT !.value = None])
           /\ UNCHANGED <<outside, db, formatted, last_listing>>

ExecuteNaturalQuery ==
    /\ Idle
    /\ phase = "Ready"
    /\ \E nq \in NaturalQueries, http \in HttpOutcomes, conn_err \in ConnectOutcomes :
        \E drv \in (IF http.kind = "ok" THEN DriverOutcomes(clean_sql(http.text))
                    ELSE DriverOutcomes(<<>>)) :
            /\ Finish("execute_natural_query", [natural_query |-> nq, http |-> http],
                      execute_natural_query(Self, nq, http, conn_err, drv))
            /\ UNCHANGED <<outside, db, engine, formatted, last_listing, built_context>>

ExecuteSqlQuery ==
    /\ Idle
    /\ phase = "Ready"
    /\ \E sql \in SqlStatements, conn_err \in ConnectOutcomes :
        \E drv \in DriverOutcomes(sql) :
            /\ Finish("execute_sql_query", [sql_query |-> sql],
                      execute_sql_query(connection, sql, None, conn_err, drv))
            /\ UNCHANGED <<outside, db, engine, formatted, last_listing, built_context>>

GetTablePreview ==
    /\ Idle
    /\ phase = "Ready"
    /\ \E t \in PreviewTables, limit \in PreviewLimits, conn_err \in ConnectOutcomes :
        \E drv \in DriverOutcomes(preview_sql(t, limit)) :
            /\ Finish("get_table_preview", [table_name |-> t, limit |-> limit],
                      get_table_preview(connection, t, limit, conn_err, drv))
            /\ UNCHANGED <<outside, db, engine, formatted, last_listing, built_context>>

\* list_tables that also rebuilds schema_context from what it listed
ListTables_refreshing ==
    /\ Idle
    /\ phase = "Ready"
    /\ \E conn_err \in ConnectOutcomes, introspect_err \in IntrospectOutcomes :
        LET out == list_tables(connection, db, conn_err, introspect_err) IN
        /\ Finish("list_tables", NoArgs, out)
        /\ schema_context' =
              IF out.value.success
              THEN <<"Available tables and columns:\n">>
                   \o Join(schema_parts(out.value.table_info.items), <<"\n">>)
              ELSE schema_context
        /\ UNCHANGED <<outside, db, phase, use_ai, api_key, formatted, last_listing,
                       built_context>>

ListTables ==
    /\ Idle
    /\ phase = "Ready"
    /\ \E conn_err \in ConnectOutcomes, introspect_err \in IntrospectOutcomes :
        /\ Finish("list_tables", NoArgs,
                  list_tables(connection, db, conn_err, introspect_err))
        /\ UNCHANGED <<outside, db, engine, formatted, last_listing, built_context>>

\* DatabaseManager().execute_query(sql): a manager of its own, not yet
\* connected, which execute_query connects
DatabaseManagerExecuteQuery ==
    /\ Idle
    /\ \E sql \in SqlStatements, conn_err \in ConnectOutcomes :
        \E drv \in DriverOutcomes(sql) :
            LET out == DatabaseManager_execute_query("None", sql, conn_err, drv)
            IN /\ op' = "DatabaseManager.execute_query"
               /\ args' = [sql_query |-> sql]
               /\ response' = None
               /\ escaped' = IF out.raised THEN out.exc ELSE NoExc
               /\ calls' = out.calls
               /\ exec' = Exec(sql, drv, out)
               /\ UNCHANGED <<outside, db, engine, connection, formatted, last_listing,
                              built_context>>

\* the caller has read the result (main.py prints it and reads the next
\* command): the record of the last call is dropped, a listing is remembered
TakeResult ==
    /\ ~Idle
    /\ op' = "none"
    /\ args' = NoArgs
    /\ response' = None
    /\ escaped' = NoExc
    /\ calls' = <<>>
    /\ exec' = NoExec
    /\ last_listing' =
           IF op = "list_tables" /\ response.success
           THEN [ty |-> "listing", data |-> response.data,
                 table_info |-> response.table_info]
           ELSE last_listing
    /\ UNCHANGED <<outside, db, engine, connection, formatted, built_context>>

\* another client of the database creates or drops tables
AlterSchema ==
    /\ Idle
    /\ db' \in Schemas \ {db}
    /\ last_listing' = NoListing
    /\ UNCHANGED <<outside, engine, connection, op, args, response, escaped, calls, exec,
                   formatted, built_context>>

ManagerMethods ==
    {"LocalDatabaseManager.execute_query", "LocalDatabaseManager.get_table_info",
     "LocalDatabaseManager.get_database_info"}

\* a method of the manager as it is called on a manager in the given state
manager_call(method, conn, tables, sql, drv, info_err) ==
    CASE method = "LocalDatabaseManager.execute_query" ->
            LocalDatabaseManager_execute_query(conn, sql, drv)
      [] method = "LocalDatabaseManager.get_table_info" ->
            LocalDatabaseManager_get_table_info(conn, tables, info_err)
      [] method = "LocalDatabaseManager.get_database_info" ->
            LocalDatabaseManager_get_database_info(conn, tables, info_err)

\* a caller calls a method of engine.db_manager with no `with` around it
ManagerCall ==
    /\ Idle
    /\ \E method \in ManagerMethods, info_err \in IntrospectOutcomes :
        LET sql == Chars_SELECT \o <<" ", "t">>
            drv == CHOOSE d \in DriverOutcomes(sql) : d.execute_err = <<>>
            out == manager_call(method, connection, db, sql, drv, info_err)
        IN /\ op' = method
           /\ args' = [connection |-> connection]
           /\ response' = out.value
           /\ escaped' = out.exc
           /\ calls' = out.calls
           /\ exec' = NoExec
           /\ connection' = out.connection
    /\ UNCHANGED <<outside, db, engine, formatted, last_listing, built_context>>

\* the module's own test: with db_manager: get_database_info(), get_table_info()
ManagerSelfTest ==
    /\ Idle
    /\ \E conn_err \in ConnectOutcomes, info_err \in IntrospectOutcomes,
          introspect_err \in IntrospectOutcomes :
        LET ent == LocalDatabaseManager_enter(connection, conn_err)
            info == LocalDatabaseManager_get_database_info(ent.connection, db, info_err)
            tables == LocalDatabaseManager_get_table_info(info.connection, db, introspect_err)
            last == IF info.raised THEN info ELSE tables
            ext == LocalDatabaseManager_exit(last.connection)
        IN /\ op' = "LocalDatabaseManager.__main__"
           /\ args' = [connection |-> connection]
           /\ response' = IF ent.raised THEN None ELSE last.value
           /\ escaped' = IF ent.raised THEN ent.exc ELSE last.exc
           /\ calls' = IF ent.raised THEN ent.calls
                       ELSE ent.calls \o info.calls
                            \o (IF info.raised THEN <<>> ELSE tables.calls) \o ext.calls
           /\ exec' = NoExec
           /\ connection' = IF ent.raised THEN ent.connection ELSE ext.connection
    /\ UNCHANGED <<outside, db, engine, formatted, last_listing, built_context>>

Next ==
    \/ TakeResult
    \/ Construct
    \/ ExecuteNaturalQuery
    \/ ExecuteSqlQuery
    \/ GetTablePreview
    \/ ListTables
    \/ DatabaseManagerExecuteQuery
    \/ ManagerCall
    \/ ManagerSelfTest
    \/ AlterSchema

Spec == Init /\ [][Next]_vars

(* ------------------ format_results applied to responses ---------------- *)

\* format_results' default for max_rows
DefaultMaxRows == 20

\* rows whose ID is shorter than, as long as and longer than the column name
FormatRows == {[ID |-> n, COUNTRY |-> "US"] : n \in {7, 42, 12345}}

FormatRowLists == UNION {[1..n -> FormatRows] : n \in 0..(MaxRows + 1)}

FormatStatements ==
    {Chars_SELECT \o <<" ", "t">>, <<"i", "n", "s", "e", "r", "t", " ", "t">>}

\* what the engine returns for a statement, a listing or a question
EngineResponses ==
    UNION {{execute_sql_query("None", sql, None, conn_err, drv).value :
               conn_err \in ConnectOutcomes, drv \in DriverOutcomes(sql)} :
           sql \in FormatStatements}
    \cup UNION {{execute_sql_query("None", sql, PyStr(<<"How many users are there?">>),
                                    <<>>, drv).value : drv \in DriverOutcomes(sql)} :
                 sql \in FormatStatements}
    \cup {get_table_preview("None", <<"t">>, 5, <<>>, drv).value :
             drv \in DriverOutcomes(preview_sql(<<"t">>, 5))}
    \cup {list_tables("None", tables, <<>>, introspect_err).value :
             tables \in Schemas, introspect_err \in IntrospectOutcomes}
    \cup {list_tables("None", <<>>, ConnectError, <<>>).value,
          natural_failure_response(Exc("Exception", <<"OpenAI API key not available">>),
                                   <<"How many users are there?">>)}

\* responses a caller can build: rows of any width, and failures that carry
\* rows, or no error text
BuiltResponses ==
    {sql_success_response(PyList(rows), Chars_SELECT \o <<" ", "t">>, None) :
        rows \in FormatRowLists}
    \cup {[success |-> FALSE, error |-> <<"Database error: ">> \o TableError,
           sql_query |-> Chars_SELECT \o <<" ", "t">>, data |-> PyList(rows)] :
             rows \in {r \in FormatRowLists : Len(r) <= 1}}
    \cup {[success |-> FALSE, data |-> None]}

FormatResponses == EngineResponses \cup BuiltResponses

FormatMaxRows == {-1, 0, 1, 2, DefaultMaxRows}

FormatInit ==
    /\ db = <<>>
    /\ phase = "Uninitialized"
    /\ use_ai = FALSE
    /\ api_key = ""
    /\ schema_context = <<>>
    /\ connection = "None"
    /\ op = "none"
    /\ args = NoArgs
    /\ response \in FormatResponses
    /\ escaped = NoExc
    /\ calls = <<>>
    /\ exec = NoExec
    /\ formatted = NotFormatted
    /\ last_listing = NoListing
    /\ built_context = <<>>
    /\ Quiet

\* format_results(response, max_rows)
FormatResults ==
    /\ ~formatted.called
    /\ \E max_rows \in FormatMaxRows :
        LET result == format_results_call(response, max_rows)
        IN formatted' = [called |-> TRUE, max_rows |-> max_rows,
                         raised |-> result.raised, out |-> result.out]
    /\ UNCHANGED <<outside, db, engine, connection, op, args, response, escaped, calls, exec,
                   last_listing, built_context>>

\* the caller formats another response
FormatAnother ==
    /\ formatted.called
    /\ formatted' = NotFormatted
    /\ response' \in FormatResponses
    /\ UNCHANGED <<outside, db, engine, connection, op, args, escaped, calls, exec,
                   last_listing, built_context>>

FormatNext == FormatResults \/ FormatAnother

FormatSpec == FormatInit /\ [][FormatNext]_vars

(* ------------------------------ properties ----------------------------- *)

PublicOps ==
    {"execute_natural_query", "execute_sql_query", "get_table_preview", "list_tables"}

\* the operations that run LocalDatabaseManager.execute_query
LocalExecutorOps == {"execute_natural_query", "execute_sql_query", "get_table_preview"}

Range(seq) == {seq[i] : i \in DOMAIN seq}

\* the last operation could not connect
ConnectFailed == \E i \in DOMAIN calls : calls[i].call = "connect" /\ calls[i].arg # <<>>

\* the last operation connected
Connected == \E i \in DOMAIN calls : calls[i].call = "connect" /\ calls[i].arg = <<>>

\* the metadata queries of the last operation failed: SHOW TABLES was sent
\* and nothing was fetched
IntrospectFailed ==
    /\ CallSql("execute", <<"SHOW TABLES">>) \in Range(calls)
    /\ CountCalls(calls, "fetchall") = 0

\* the executor raised in the last operation
ExecutionFailed == exec.ran /\ exec.out.raised

\* the generation request of the last operation failed
GenerationFailed ==
    /\ op = "execute_natural_query"
    /\ CountCalls(calls, "post") > 0
    /\ args.http.kind # "ok"

\* C1: a public engine operation never lets an exception reach its caller:
\* it returns a response, and when the connection, the introspection, the
\* generation or the execution failed that response has success = FALSE.
C1_NoExceptionEscapes ==
    op \in PublicOps =>
        /\ escaped = NoExc
        /\ "success" \in DOMAIN response
        /\ (ConnectFailed \/ IntrospectFailed \/ GenerationFailed \/ ExecutionFailed)
              => response.success = FALSE

\* a direct SQL statement failed in the driver and came back as a response
C1_Witness ==
    /\ op = "execute_sql_query"
    /\ ExecutionFailed
    /\ escaped = NoExc
    /\ response.success = FALSE

\* C2: in every response of a public operation, success = FALSE comes with
\* data None and a non-empty error, and success = TRUE comes with no error.
C2_ResponseShape ==
    (op \in PublicOps /\ escaped = NoExc) =>
        /\ response.success = FALSE =>
              /\ "data" \in DOMAIN response
              /\ response.data.ty = "NoneType"
              /\ "error" \in DOMAIN response
              /\ response.error # <<>>
              /\ \A i \in DOMAIN response.error : response.error[i] # ""
        /\ response.success = TRUE => "error" \notin DOMAIN response

\* a failed get_table_preview: data is None and the error is set
C2_Witness ==
    /\ op = "get_table_preview"
    /\ response.success = FALSE
    /\ response.data = None
    /\ Len(response.error) >= 2

\* the engine was constructed while introspection failed
Degraded ==
    /\ phase = "Ready"
    /\ schema_context # <<>>
    /\ Head(schema_context) = ErrorLoadingSchema

\* C3: on a degraded engine execute_natural_query fails fast: success =
\* FALSE, no request to the language model, no SQL executed.
C3_DegradedFailsFast ==
    (op = "execute_natural_query" /\ Degraded) =>
        /\ response.success = FALSE
        /\ CountCalls(calls, "post") = 0
        /\ CountCalls(calls, "execute") = 0

\* C4: a failing introspection does not make the constructor raise, it
\* leaves the error placeholder in schema_context; and execute_sql_query on
\* that engine, once connected, sends its statement to the driver once and
\* succeeds unless the statement itself fails.
C4_DegradedDirectSql ==
    /\ op = "__init__" =>
          /\ escaped = NoExc
          /\ phase = "Ready"
          /\ (ConnectFailed \/ IntrospectFailed) => Degraded
    /\ (op = "execute_sql_query" /\ Degraded /\ Connected) =>
          /\ exec.ran
          /\ CountCalls(calls, "execute") = 1
          /\ CallSql("execute", args.sql_query) \in Range(calls)
          /\ response.success <=> ~exec.out.raised

\* a degraded engine answered a direct statement
C4_Witness ==
    /\ op = "execute_sql_query"
    /\ Degraded
    /\ response.success = TRUE
    /\ CountCalls(calls, "execute") = 1

\* C5: without AI (use_ai FALSE as asked, or forced FALSE by the constructor
\* when no key was found) execute_natural_query returns success = FALSE and
\* makes no call at all: no request, no connection, no statement.
C5_NoAiFailsFast ==
    /\ (op = "__init__" /\ args.api_key = "" /\ args.env_key = ""
          /\ LocalConfig_OPENAI_API_KEY = "") => use_ai = FALSE
    /\ (op = "execute_natural_query" /\ ~use_ai) =>
          /\ response.success = FALSE
          /\ response.data = None
          /\ calls = <<>>
          /\ ~exec.ran

\* a natural-language query on an engine that holds a key but was told not
\* to use AI
C5_Witness ==
    /\ op = "execute_natural_query"
    /\ ~use_ai
    /\ api_key # ""
    /\ response.success = FALSE

\* C6: when the generation request fails, execute_natural_query returns
\* success = FALSE with an error that holds the failure's text ("OpenAI API
\* error" for a non-200 status), after exactly one request and without
\* connecting to the database or executing anything.
C6_GenerationFailure ==
    (op = "execute_natural_query" /\ use_ai /\ args.http.kind # "ok") =>
        /\ response.success = FALSE
        /\ Range(args.http.text) \subseteq Range(response.error)
        /\ args.http.kind = "status" => "OpenAI API error: " \in Range(response.error)
        /\ CountCalls(calls, "post") = 1
        /\ CountCalls(calls, "connect") = 0
        /\ CountCalls(calls, "execute") = 0
        /\ ~exec.ran

\* the endpoint answered with a non-200 status
C6_Witness ==
    /\ op = "execute_natural_query"
    /\ use_ai
    /\ args.http.kind = "status"
    /\ response.success = FALSE
    /\ CountCalls(calls, "post") = 1

\* the keywords the claim names
ReadKeywords == {Chars_SELECT, Chars_SHOW, Chars_DESCRIBE, Chars_EXPLAIN}

\* C7: a statement LocalDatabaseManager.execute_query ran successfully gives
\* the fetched rows when its leading keyword is SELECT, SHOW, DESCRIBE or
\* EXPLAIN, and otherwise one record carrying the driver's rowcount.
C7_ResultByLeadingKeyword ==
    (exec.ran /\ op \in LocalExecutorOps /\ ~exec.out.raised) =>
        IF LeadingKeyword(exec.query) \in ReadKeywords
        THEN exec.out.value = PyList(DictRows(exec.drv.rs))
        ELSE exec.out.value = PyList(<<[affected_rows |-> exec.drv.rowcount]>>)

\* a lower-case EXPLAIN-family statement behind leading whitespace gave rows
C7_Witness ==
    /\ op = "execute_sql_query"
    /\ exec.ran
    /\ ~exec.out.raised
    /\ Head(exec.query) \in Whitespace
    /\ LeadingKeyword(exec.query) = Chars_DESCRIBE
    /\ exec.query # upper(exec.query)
    /\ Len(exec.out.value.items) = MaxRows

\* C8: either executor commits exactly once, after the execute, for a
\* statement it classifies as a write and that executed; it does not commit
\* when the execute raised, nor for a statement it classifies as a read.
C8_CommitOnce ==
    exec.ran =>
        LET log == exec.out.calls
            remote == op = "DatabaseManager.execute_query"
            write == IF remote THEN ~IsRead_remote(exec.query)
                     ELSE ~IsRead_local(exec.query)
            executed == CountCalls(log, "execute") = 1 /\ exec.drv.execute_err = <<>>
            count == IF remote THEN exec.out.value.affected_rows
                     ELSE exec.out.value.items[1].affected_rows
        IN /\ (executed /\ write) =>
                 /\ CountCalls(log, "commit") = 1
                 /\ FirstCall(log, "execute") < FirstCall(log, "commit")
                 /\ ~exec.out.raised => count = exec.drv.rowcount
           /\ ~executed => CountCalls(log, "commit") = 0
           /\ ~write => CountCalls(log, "commit") = 0

\* an insert through the engine: executed, committed once, count returned
C8_Witness ==
    /\ op = "execute_sql_query"
    /\ exec.ran
    /\ ~exec.out.raised
    /\ LeadingKeyword(exec.query) = Chars_INSERT
    /\ CountCalls(exec.out.calls, "commit") = 1
    /\ exec.out.value.items[1].affected_rows = MaxRowCount

\* C9: a completion that wraps T in a ```sql fence and a closing fence, with
\* whitespace around the pair and around T, is cleaned to exactly T stripped,
\* with no fence left at either end.
C9_FenceStripped ==
    (op = "execute_natural_query" /\ use_ai /\ args.http.kind = "ok") =>
        \A T \in CompletionTexts :
            args.http.text \in SqlFenced(T) =>
                /\ response.sql_query = strip(T)
                /\ ~startswith(response.sql_query, Fence)
                /\ ~endswith(response.sql_query, Fence)

\* a fenced completion with whitespace before the fence and inside it, whose
\* text ends in a backquote
C9_Witness ==
    /\ op = "execute_natural_query"
    /\ use_ai
    /\ args.http.kind = "ok"
    /\ Head(args.http.text) \in Whitespace
    /\ \E T \in CompletionTexts :
          /\ T[Len(T)] = Backquote
          /\ args.http.text \in SqlFenced(T)
          /\ Len(args.http.text) >= Len(T) + 9 + 4 + MaxPad
          /\ response.sql_query = T

\* C10: what LocalDatabaseManager.execute_query returns is exactly one of
\* two shapes a caller can tell apart: the rows of a query, or an
\* affected-row count.
C10_DistinguishableShapes ==
    (exec.ran /\ op \in LocalExecutorOps /\ ~exec.out.raised) =>
        LET v == exec.out.value
            rows_shape == \E rs \in ResultSets : v = PyList(DictRows(rs))
            affected_shape ==
                \E n \in -1..MaxRowCount : v = PyList(<<[affected_rows |-> n]>>)
        IN rows_shape # affected_shape


(* ------------------------- format_results: claims ---------------------- *)

\* the lines of a formatted text: its elements split at the newlines
RECURSIVE Lines(_)
Lines(out) ==
    IF \A i \in DOMAIN out : out[i] # "\n" THEN <<out>>
    ELSE LET n == CHOOSE i \in DOMAIN out :
                      out[i] = "\n" /\ \A j \in 1..(i - 1) : out[j] # "\n"
         IN <<SubSeq(out, 1, n - 1)>> \o Lines(SubSeq(out, n + 1, Len(out)))

\* s occurs in out as a run of consecutive elements
Contains(out, s) ==
    \E i \in 0..(Len(out) - Len(s)) : SubSeq(out, i + 1, i + Len(s)) = s

\* elements only a table or its summary holds
TableMarks == {"|", "-", "Total rows: ", "... showing ", "\n"}

\* format_results(response), max_rows left at its default, was given the
\* response of a write that executed
FormattedWrite ==
    /\ formatted.called
    /\ formatted.max_rows = DefaultMaxRows
    /\ "success" \in DOMAIN response /\ response.success
    /\ "sql_query" \in DOMAIN response
    /\ ~IsRead_local(response.sql_query)

\* C11: the response of a write that affected n rows is formatted as a
\* single confirmation line that states n, not as a table.
C11_AffectedConfirmationLine ==
    FormattedWrite =>
        /\ Len(Lines(formatted.out)) = 1
        /\ Contains(formatted.out, str_int(response.data.items[1].affected_rows))
        /\ \A i \in DOMAIN formatted.out : formatted.out[i] \notin TableMarks


\* format_results was given a response whose success is not true
FormattedFailure ==
    /\ formatted.called
    /\ ~("success" \in DOMAIN response /\ response.success)

\* C12: a response with success = FALSE is formatted as one line, which holds
\* the response's error message when it has one and holds no header, rule,
\* data row or row count, whatever data or sql_query the response carries.
C12_ErrorLineOnly ==
    FormattedFailure =>
        /\ Len(Lines(formatted.out)) = 1
        /\ "error" \in DOMAIN response => Contains(formatted.out, response.error)
        /\ \A i \in DOMAIN formatted.out : formatted.out[i] \notin TableMarks

\* a failure that carries a row and the statement was formatted
C12_Witness ==
    /\ FormattedFailure
    /\ "error" \in DOMAIN response
    /\ "sql_query" \in DOMAIN response
    /\ response.data.ty = "list" /\ Len(response.data.items) = 1
    /\ formatted.max_rows = DefaultMaxRows


\* format_results was given the successful response of a query, with at
\* least one row
FormattedRows ==
    /\ formatted.called
    /\ "success" \in DOMAIN response /\ response.success
    /\ "sql_query" \in DOMAIN response
    /\ IsRead_local(response.sql_query)
    /\ response.data.ty = "list"
    /\ Len(response.data.items) >= 1

Min(a, b) == IF a < b THEN a ELSE b

\* C13: n >= 1 rows are formatted, for every max_rows, as min(n, max_rows)
\* data rows in the original order from the first row on, then a summary
\* line that states n and, when n > max_rows, "max_rows of n".
C13_TruncatedRows ==
    FormattedRows =>
        LET rows == response.data.items
            n == Len(rows)
            shown == Min(n, formatted.max_rows)
            lines == Lines(formatted.out)
        IN /\ shown >= 0
           /\ Len(lines) = shown + 4
           /\ \A i \in 1..shown :
                 startswith(lines[2 + i], str_cell(rows[i], keys(rows[1])[1]))
           /\ lines[shown + 3] = <<>>
           /\ Contains(lines[shown + 4], str_int(n))
           /\ n > formatted.max_rows =>
                 Contains(lines[shown + 4],
                          str_int(formatted.max_rows) \o <<" of ">> \o str_int(n))


\* format_results rendered a table
FormattedTable ==
    /\ formatted.called
    /\ "success" \in DOMAIN response /\ response.success
    /\ response.data.ty = "list"
    /\ Len(Lines(formatted.out)) >= 5

\* the rows the table displays: one per line between the rule and the blank
\* line before the summary
Displayed == SubSeq(response.data.items, 1, Len(Lines(formatted.out)) - 4)

\* the width the claim gives a column
ClaimWidth(col) ==
    Max({Len(Chars[col])} \cup {Len(str_cell(Displayed[i], col)) : i \in DOMAIN Displayed})

\* where the cell of the j-th column starts in a line, counted from 0
RECURSIVE CellOffset(_, _)
CellOffset(columns, j) ==
    IF j = 1 THEN 0 ELSE CellOffset(columns, j - 1) + ClaimWidth(columns[j - 1]) + 3

\* line holds, column by column, the text padded with spaces to the column's
\* width, " | " between two cells and nothing else
Aligned(line, columns, text) ==
    /\ Len(line) = CellOffset(columns, Len(columns)) + ClaimWidth(columns[Len(columns)])
    /\ \A j \in DOMAIN columns :
          LET from == CellOffset(columns, j)
              t == text[j]
          IN /\ SubSeq(line, from + 1, from + Len(t)) = t
             /\ \A p \in (from + Len(t) + 1)..(from + ClaimWidth(columns[j])) :
                   line[p] = " "
             /\ j > 1 => SubSeq(line, from - 2, from) = <<" ", "|", " ">>

\* C14: in a rendered table every column is as wide as the longer of its
\* name and its longest value among the displayed rows, each header and data
\* cell is padded to that width, and the rule is as long as the header line.
C14_ColumnWidths ==
    FormattedTable =>
        LET lines == Lines(formatted.out)
            columns == keys(response.data.items[1])
        IN /\ Aligned(lines[1], columns, [j \in DOMAIN columns |-> Chars[columns[j]]])
           /\ \A i \in DOMAIN Displayed :
                 Aligned(lines[2 + i], columns,
                         [j \in DOMAIN columns |-> str_cell(Displayed[i], columns[j])])
           /\ Len(lines[2]) = Len(lines[1])
           /\ \A p \in DOMAIN lines[2] : lines[2][p] = "-"

\* two of three rows are displayed: ID is as wide as its name, narrower than
\* the value of the row left out, and COUNTRY is wider than ID
C14_Witness ==
    /\ FormattedTable
    /\ formatted.max_rows = 2
    /\ Len(response.data.items) = 3
    /\ "ID" \in DOMAIN response.data.items[1]
    /\ response.data.items[1].ID = 7
    /\ response.data.items[2].ID = 42
    /\ response.data.items[3].ID = 12345
    /\ Len(Lines(formatted.out)[1]) = 12


\* C28: format_results returns a string, and raises nothing, for every
\* response an engine operation returns and every max_rows >= 1.
C28_FormatResultsTotal ==
    (formatted.called /\ formatted.max_rows >= 1 /\ response \in EngineResponses)
        => ~formatted.raised

(* --------------------------- list_tables: claims ----------------------- *)

\* C15: on a constructed engine, degraded or not, list_tables returns
\* success = TRUE whenever a connection could be established: a failure of
\* the metadata queries on that connection does not make it fail.
C15_ListTablesSucceeds ==
    (op = "list_tables" /\ Connected) => response.success


\* list_tables succeeded, and the caller had read a listing before, since
\* when the tables have not changed
ListedAgain ==
    /\ op = "list_tables"
    /\ response.success
    /\ last_listing.ty = "listing"

\* C16: a successful list_tables returns the table names and the column
\* lists of the successful list_tables before it, when the tables were not
\* changed in between, whatever other operations ran in between.
C16_ListTablesIdempotent ==
    ListedAgain =>
        /\ response.data = last_listing.data
        /\ response.table_info = last_listing.table_info

\* the second listing of a database that has tables
C16_Witness ==
    /\ ListedAgain
    /\ Len(response.data.items) = 2
    /\ Len(response.table_info.items[1].columns) = 2


\* the field of the response is the mapping from table name to column list
IsSchemaMapping(field) ==
    /\ field \in DOMAIN response
    /\ response[field].ty = "dict"
    /\ \A i \in DOMAIN db :
          /\ i \in DOMAIN response[field].items
          /\ response[field].items[i].table_name = db[i].name
          /\ response[field].items[i].columns = formatted_columns(db[i].columns)

\* C17: a successful list_tables response carries the mapping from table
\* name to column list where its callers read it: under "tables", which the
\* test reads, or as the returned data.
C17_TablesMapping ==
    (op = "list_tables" /\ response.success) =>
        (IsSchemaMapping("tables") \/ IsSchemaMapping("data"))


(* ------------------------- schema context: claims ---------------------- *)

\* C18: once the engine is constructed, schema_context stays the text the
\* constructor computed, whatever operations ran and however they ended, and
\* every prompt sent to the model embeds that text, also after the tables of
\* the database have changed.
C18_SchemaContextFrozen ==
    phase = "Ready" =>
        /\ schema_context = built_context
        /\ \A i \in DOMAIN calls :
              calls[i].call = "post" =>
                  calls[i].arg = system_prompt(built_context)
                                 \o user_message(args.natural_query)

\* a prompt was sent that names the table USERS, after the tables were dropped
C18_Witness ==
    /\ phase = "Ready"
    /\ op = "execute_natural_query"
    /\ CountCalls(calls, "post") = 1
    /\ db = <<>>
    /\ "USERS" \in Range(built_context)
    /\ "USERS" \in Range(calls[FirstCall(calls, "post")].arg)


\* C19: when the constructor's introspection succeeds on a database without
\* tables, schema_context is a text that says so: it is not empty, and it is
\* not the header of the table list with no table after it.
C19_EmptySchemaPlaceholder ==
    (op = "__init__" /\ Connected /\ ~IntrospectFailed /\ db = <<>>) =>
        /\ schema_context # <<>>
        /\ schema_context # <<"Available tables and columns:\n">>


(* ------------------------- the connection: claims ---------------------- *)

\* C20: the engine's connection is never open when the constructor or a
\* public operation has returned, however it ended: an operation that
\* connected leaves the connection closed, and so does every sequence of them.
C20_ConnectionScoped ==
    /\ connection # "open"
    /\ (op \in PublicOps \cup {"__init__"} /\ Connected) =>
          /\ connection = "closed"
          /\ CountCalls(calls, "connect") = 1
          /\ CountCalls(calls, "close") <= 1

\* a statement failed in the driver on the connection opened for it, and
\* that connection was closed
C20_Witness ==
    /\ op = "execute_sql_query"
    /\ Connected
    /\ ExecutionFailed
    /\ connection = "closed"
    /\ Call("close") \in Range(calls)


(* ------------------------ calls of an operation ------------------------ *)

DriverMessage ==
    IF exec.drv.execute_err # <<>> THEN exec.drv.execute_err ELSE exec.drv.commit_err

\* C22: when the driver fails a statement with message m, the response of
\* execute_sql_query, get_table_preview or execute_natural_query has success
\* = FALSE, an error that holds m unchanged, and the sql_query that failed.
C22_DriverMessageKept ==
    (op \in LocalExecutorOps /\ ExecutionFailed) =>
        /\ ~response.success
        /\ Contains(response.error, DriverMessage)
        /\ "sql_query" \in DOMAIN response
        /\ response.sql_query = exec.query

\* a generated statement named a table the server does not have
C22_Witness ==
    /\ op = "execute_natural_query"
    /\ ExecutionFailed
    /\ DriverMessage = TableError
    /\ response.sql_query = clean_sql(args.http.text)


\* the statements the last operation sent to the server, in order
RECURSIVE Executed(_)
Executed(log) ==
    IF log = <<>> THEN <<>>
    ELSE (IF Head(log).call = "execute" THEN <<Head(log).arg>> ELSE <<>>)
         \o Executed(Tail(log))

\* "SELECT * FROM <table> LIMIT <limit>"
PreviewText(table, limit) ==
    <<"S", "E", "L", "E", "C", "T", " ", "*", " ", "F", "R", "O", "M", " ">> \o table
    \o <<" ", "L", "I", "M", "I", "T", " ">> \o str_int(limit)

\* C23: when generation succeeds, execute_natural_query reports the cleaned
\* generated text as sql_query and the caller's question as natural_query,
\* and once connected sends exactly that text to the server, once; and
\* get_table_preview sends exactly "SELECT * FROM <table> LIMIT <limit>".
C23_ExecutesTextAsGiven ==
    /\ (op = "execute_natural_query" /\ CountCalls(calls, "post") = 1
        /\ args.http.kind = "ok") =>
          /\ response.sql_query = clean_sql(args.http.text)
          /\ response.natural_query = PyStr(args.natural_query)
          /\ Executed(calls) =
                IF Connected THEN <<clean_sql(args.http.text)>> ELSE <<>>
    /\ op = "get_table_preview" =>
          /\ response.sql_query = PreviewText(args.table_name, args.limit)
          /\ Executed(calls) =
                IF Connected THEN <<PreviewText(args.table_name, args.limit)>> ELSE <<>>

\* a fenced lower-case statement the server then ran, reported as cleaned
C23_Witness ==
    /\ op = "execute_natural_query"
    /\ CountCalls(calls, "post") = 1
    /\ args.http.kind = "ok"
    /\ startswith(args.http.text, Fence_sql)
    /\ response.success
    /\ Executed(calls) = <<<<"d", "e", "l", "e", "t", "e", " ", "t">>>>
    /\ response.sql_query = <<"d", "e", "l", "e", "t", "e", " ", "t">>

(* --------------- scripts/ai_pr_assistant.py: the prompts --------------- *)
(* A text is a sequence of elements, each a run of characters that the     *)
(* code below never splits; a line break is an element of its own, and     *)
(* len() counts elements.                                                  *)

\* MAX_DIFF_CHARS when the environment does not set it
DefaultMaxDiffChars == 20000

lower(s) ==
    [i \in DOMAIN s |->
        IF \E c \in DOMAIN ToUpper : ToUpper[c] = s[i]
        THEN CHOOSE c \in DOMAIN ToUpper : ToUpper[c] = s[i]
        ELSE s[i]]

\* a file of a pull request as GitHub lists it: patch is None when GitHub
\* leaves it out (binary or too large)
PrFile(filename, status, additions, patch) ==
    [filename |-> filename, status |-> status, additions |-> additions, patch |-> patch]

\* header + summary + patch + "\n" of one file
diff_part(f) ==
    <<"--- a/", f.filename, "\n", "+++ b/", f.filename, "\n">>
    \o <<"# changes: status=">> \o f.status \o <<" additions=">> \o IntStr(f.additions)
    \o <<" deletions=", "0", "\n">>
    \o (IF Truthy(f.patch) THEN f.patch.chars ELSE <<>>)
    \o <<"\n">>

build_unified_diff(files, max_chars) ==
    LET combined == strip(Join([i \in DOMAIN files |-> diff_part(files[i])], <<"\n">>))
    IN IF combined = <<>> THEN <<>>
       ELSE IF Len(combined) > max_chars
            THEN SubSeq(combined, 1, max_chars) \o <<"\n", "# [diff truncated]", "\n">>
            ELSE combined

file_summary(f) ==
    LET status == lower(f.status)
        tag == IF status = <<"a", "d", "d", "e", "d">> THEN <<"NEW FILE">> ELSE status
    IN <<"- ", f.filename, " (">> \o tag \o <<"; additions=">> \o IntStr(f.additions)
       \o <<", deletions=", "0", ")">>

build_file_summaries(files) ==
    IF files = <<>> THEN <<>>
    ELSE Join([i \in DOMAIN files |-> file_summary(files[i])], <<"\n">>)

\* the change signals of a pull request
gather_pr_context(files, commits, max_chars) ==
    LET has_file_entries == Len(files) > 0
    IN [diff_snippet |-> IF has_file_entries THEN build_unified_diff(files, max_chars) ELSE <<>>,
        file_summaries |-> IF has_file_entries THEN build_file_summaries(files) ELSE <<>>,
        commit_messages |-> strip(Join(commits, <<"\n">>))]

\* the sentence each description prompt opens its data with
DescriptionPrompts ==
    [diff |-> "Write a concise and informative pull request description based on the DIFF below.",
     files |-> "No line-level diff is available, but the PR includes these file changes:",
     commits |-> "No file diffs were available for this PR. Use the commit messages below:",
     template |-> "**Purpose**"]

ReviewPrompts ==
    [diff |-> "Review the following DIFF and provide:",
     files |-> "No line-level diff is available. Review the PR based on the file-level changes:",
     commits |-> "No file diffs were available. Review based on commit messages:",
     template |-> "No diff, file summaries, or commit messages available."]

make_description_prompt(diff_snippet, file_summaries, commit_messages) ==
    IF diff_snippet # <<>> THEN <<DescriptionPrompts.diff, "\n">> \o diff_snippet
    ELSE IF file_summaries # <<>> THEN <<DescriptionPrompts.files, "\n">> \o file_summaries
    ELSE IF commit_messages # <<>> THEN <<DescriptionPrompts.commits, "\n">> \o commit_messages
    ELSE <<DescriptionPrompts.template>>

make_review_prompt(diff_snippet, file_summaries, commit_messages) ==
    IF diff_snippet # <<>> THEN <<ReviewPrompts.diff, "\n">> \o diff_snippet
    ELSE IF file_summaries # <<>> THEN <<ReviewPrompts.files, "\n">> \o file_summaries
    ELSE IF commit_messages # <<>> THEN <<ReviewPrompts.commits, "\n">> \o commit_messages
    ELSE <<ReviewPrompts.template>>

\* scripts/generate_pr_description.py: the prompt the script settles on
generate_pr_description_prompt(files, commits) ==
    LET ctx == gather_pr_context(files, commits, DefaultMaxDiffChars)
    IN make_description_prompt(ctx.diff_snippet, ctx.file_summaries, ctx.commit_messages)

\* scripts/generate_code_review.py: the prompt the script settles on
generate_code_review_prompt(files, commits) ==
    LET ctx == gather_pr_context(files, commits, DefaultMaxDiffChars)
    IN make_review_prompt(ctx.diff_snippet, ctx.file_summaries, ctx.commit_messages)

(* ------------ scripts/ai_pr_assistant.py: the AI section --------------- *)

DESC_MARKER_BEGIN == "<!-- AI_PR_DESC_BEGIN -->"

DESC_MARKER_END == "<!-- AI_PR_DESC_END -->"

Backslash == "\\"

\* what a backslash and the letter after it stand for in a replacement
\* template of re; the character after a backslash is an element of its own
TemplateEscapes ==
    [a |-> "BEL", b |-> "BS", f |-> "\f", n |-> "\n", r |-> "\r", t |-> "\t", v |-> "VT"]

\* the text a replacement template of re stands for; re.error for a backslash
\* with an unknown letter after it, or with nothing after it
RECURSIVE expand_template(_)
expand_template(template) ==
    IF template = <<>> THEN [raised |-> FALSE, value |-> <<>>]
    ELSE IF Head(template) # Backslash
    THEN LET rest == expand_template(Tail(template))
         IN [raised |-> rest.raised, value |-> <<Head(template)>> \o rest.value]
    ELSE IF Len(template) = 1 THEN [raised |-> TRUE, value |-> <<>>]
    ELSE LET c == template[2]
             rest == expand_template(Tail(Tail(template)))
         IN IF c \in DOMAIN TemplateEscapes
            THEN [raised |-> rest.raised, value |-> <<TemplateEscapes[c]>> \o rest.value]
            ELSE IF c = Backslash
            THEN [raised |-> rest.raised, value |-> <<Backslash>> \o rest.value]
            ELSE IF c \in Letters
            THEN [raised |-> TRUE, value |-> <<>>]
            ELSE [raised |-> rest.raised, value |-> <<Backslash, c>> \o rest.value]

\* pattern.search(original): a begin marker with an end marker after it
pattern_search(original) ==
    \E i \in DOMAIN original, j \in DOMAIN original :
        i < j /\ original[i] = DESC_MARKER_BEGIN /\ original[j] = DESC_MARKER_END

\* pattern.sub: every match, from the left, the shortest from its begin marker
RECURSIVE pattern_sub(_, _)
pattern_sub(replacement, original) ==
    IF ~pattern_search(original) THEN original
    ELSE LET i == CHOOSE i \in DOMAIN original :
                      /\ original[i] = DESC_MARKER_BEGIN
                      /\ \A k \in 1..(i - 1) : original[k] # DESC_MARKER_BEGIN
             j == CHOOSE j \in (i + 1)..Len(original) :
                      /\ original[j] = DESC_MARKER_END
                      /\ \A k \in (i + 1)..(j - 1) : original[k] # DESC_MARKER_END
         IN SubSeq(original, 1, i - 1) \o replacement
            \o pattern_sub(replacement, SubSeq(original, j + 1, Len(original)))

upsert_block(original, content) ==
    LET block == <<DESC_MARKER_BEGIN, "\n">> \o content \o <<"\n", DESC_MARKER_END>>
    IN IF pattern_search(original)
       THEN LET template == expand_template(block)
            IN IF template.raised THEN [raised |-> TRUE, value |-> original]
               ELSE [raised |-> FALSE, value |-> pattern_sub(template.value, original)]
       ELSE [raised |-> FALSE,
             value |-> original
                       \o (IF strip(original) # <<>> THEN <<"\n", "\n", "---", "\n", "\n">> ELSE <<>>)
                       \o block]

PullRequest(head, body) == [head |-> head, state |-> "open", body |-> body]

\* main() of ai_pr_assistant.py on pull request n, as far as the body goes:
\* ai_desc is what call_openai returned for the description prompt (empty
\* when the call failed), edit_ok whether GitHub took the edit. The review
\* comment main() posts afterwards is read by none of the scripts.
assistant_main(prs, n, ai_desc, edit_ok) ==
    LET new_body == upsert_block(prs[n].body, ai_desc)
        edited == ai_desc # <<>> /\ ~new_body.raised /\ edit_ok
    IN [pulls |-> [prs EXCEPT ![n].body = IF edited THEN new_body.value ELSE @],
        before |-> prs[n].body,
        ai_desc |-> ai_desc,
        upserted |-> ai_desc # <<>> /\ ~new_body.raised,
        edited |-> edited]

(* ------------------- .github/scripts/ai_pr_agent.py -------------------- *)

DefaultPhrase == <<"P", "R", " ", "C", "r", "e", "a", "t", "e">>

\* re.compile(re.escape(phrase), re.IGNORECASE).search over the commit messages
has_trigger_phrase_in_push(commits, phrase) ==
    /\ phrase # <<>>
    /\ \E i \in DOMAIN commits : Contains(upper(commits[i]), upper(phrase))

pr_body_placeholder ==
    <<DESC_MARKER_BEGIN, "\n", "(Generating description...)", "\n", DESC_MARKER_END>>

open_prs(prs, head_branch) ==
    {n \in DOMAIN prs : prs[n].state = "open" /\ prs[n].head = head_branch}

\* a pull request is opened whatever is open already
ensure_pr_always(prs, head_branch, body) ==
    [pulls |-> Append(prs, PullRequest(head_branch, body)),
     number |-> Len(prs) + 1,
     created |-> TRUE]

ensure_pr(prs, head_branch, body) ==
    IF open_prs(prs, head_branch) # {}
    THEN [pulls |-> prs,
          number |-> Max(open_prs(prs, head_branch)),
          created |-> FALSE]
    ELSE [pulls |-> Append(prs, PullRequest(head_branch, body)),
          number |-> Len(prs) + 1,
          created |-> TRUE]

default_branch == "main"

\* what a run of the agent did; the assistant's part is empty when it was not called
AgentRun(event_name, head_branch, base_branch, commits, phrase, outcome) ==
    [event |-> event_name, head |-> head_branch, base |-> base_branch,
     commits |-> commits, phrase |-> phrase, outcome |-> outcome,
     created |-> FALSE, number |-> 0, assistant |-> FALSE,
     before |-> <<>>, ai_desc |-> <<>>, upserted |-> FALSE, edited |-> FALSE]

\* the agent's run with the assistant's part filled in
Assisted(run, number, a) ==
    [run EXCEPT !.number = number, !.assistant = TRUE, !.before = a.before,
                !.ai_desc = a.ai_desc, !.upserted = a.upserted, !.edited = a.edited]

\* main(): pr_num is the number the pull_request event carries (0: none),
\* create_ok whether GitHub accepts a new pull request for the branch
agent_main(prs, event_name, pr_num, head_branch, base_branch_env, commits, phrase, has_token, create_ok, ai_desc, edit_ok) ==
    LET base_branch == IF base_branch_env # "" THEN base_branch_env ELSE default_branch
        run(outcome) == AgentRun(event_name, head_branch, base_branch, commits, phrase, outcome)
    IN IF ~has_token THEN [pulls |-> prs, run |-> run("exit 1")]
       ELSE IF event_name = "pull_request"
       THEN IF pr_num = 0 THEN [pulls |-> prs, run |-> run("exit 0")]
            ELSE LET a == assistant_main(prs, pr_num, ai_desc, edit_ok)
                 IN [pulls |-> a.pulls, run |-> Assisted(run("enriched"), pr_num, a)]
       ELSE IF event_name = "push"
       THEN IF head_branch \in {base_branch, default_branch}
            THEN [pulls |-> prs, run |-> run("skipped: base")]
            ELSE IF ~has_trigger_phrase_in_push(commits, phrase)
            THEN [pulls |-> prs, run |-> run("skipped: no phrase")]
            ELSE IF ~create_ok /\ open_prs(prs, head_branch) = {}
            THEN [pulls |-> prs, run |-> run("create_pull raised")]
            ELSE LET pr == ensure_pr(prs, head_branch, pr_body_placeholder)
                     a == assistant_main(pr.pulls, pr.number, ai_desc, edit_ok)
                 IN [pulls |-> a.pulls,
                     run |-> [Assisted(run("enriched"), pr.number, a)
                                EXCEPT !.created = pr.created]]
       ELSE [pulls |-> prs, run |-> run("not handled")]

(* ------------------------- the PR agent at work ------------------------ *)

\* pull requests kept, open or closed
MaxPulls == 2

\* everything but the pull requests, the agent and the loop
program ==
    <<db, engine, connection, op, args, response, escaped, calls, exec,
      formatted, last_listing, built_context>>

\* no engine has been constructed
AtRest ==
    /\ db = <<>>
    /\ phase = "Uninitialized"
    /\ use_ai = FALSE
    /\ api_key = ""
    /\ schema_context = <<>>
    /\ connection = "None"
    /\ op = "none"
    /\ args = NoArgs
    /\ response = None
    /\ escaped = NoExc
    /\ calls = <<>>
    /\ exec = NoExec
    /\ formatted = NotFormatted
    /\ last_listing = NoListing
    /\ built_context = <<>>

Branches == {default_branch, "develop", "feature"}

BaseBranchEnvs == {"", "develop"}

Chars_fix == <<"f", "i", "x">>

Chars_pr_create == <<"p", "r", " ", "c", "r", "e", "a", "t", "e", ":", " ", "x">>

\* the commit messages of a push and PR_TRIGGER_PHRASE
Pushes ==
    {[commits |-> <<Chars_fix>>, phrase |-> DefaultPhrase],
     [commits |-> <<Chars_fix, Chars_pr_create>>, phrase |-> DefaultPhrase],
     [commits |-> <<Chars_fix, Chars_pr_create>>, phrase |-> <<>>]}

\* what call_openai returns for the description: nothing, or a plain text
PlainTexts == {<<>>, <<"Adds the login page.">>}

ScriptInit ==
    /\ AtRest
    /\ pulls = <<>>
    /\ agent = NoRun
    /\ loop = NoLoop

\* the run is kept while the pull requests stay within the bound
Ran(r) ==
    /\ Len(r.pulls) <= MaxPulls
    /\ pulls' = r.pulls
    /\ agent' = r.run
    /\ UNCHANGED <<program, loop>>

\* the workflow runs the agent for a pull_request event
PullRequestEvent ==
    \E pr_num \in 0..Len(pulls), ai_desc \in PlainTexts :
        Ran(agent_main(pulls, "pull_request", pr_num,
                       IF pr_num = 0 THEN default_branch ELSE pulls[pr_num].head,
                       "", <<>>, DefaultPhrase, TRUE, TRUE, ai_desc, TRUE))

\* the workflow runs the agent for a push
PushEvent ==
    \E head_branch \in Branches, base_branch_env \in BaseBranchEnvs, push \in Pushes,
       create_ok \in BOOLEAN, ai_desc \in PlainTexts :
        Ran(agent_main(pulls, "push", 0, head_branch, base_branch_env, push.commits,
                       push.phrase, TRUE, create_ok, ai_desc, TRUE))

\* the workflow runs the agent for another event, or without a token
OtherEvent ==
    \E has_token \in BOOLEAN :
        Ran(agent_main(pulls, IF has_token THEN "workflow_dispatch" ELSE "push", 0, "feature",
                       "", <<Chars_pr_create>>, DefaultPhrase, has_token, TRUE, <<>>, TRUE))

\* someone opens a pull request by hand; GitHub keeps one open per head.
\* The agent's last run is kept while nobody else changes the pull requests.
OpenPr ==
    /\ Len(pulls) < MaxPulls
    /\ \E head \in Branches \ {default_branch} :
        /\ open_prs(pulls, head) = {}
        /\ pulls' = Append(pulls, PullRequest(head, <<"Fixes #12.">>))
    /\ agent' = NoRun
    /\ UNCHANGED <<program, loop>>

\* a pull request is merged or closed
ClosePr ==
    /\ \E n \in DOMAIN pulls :
        /\ pulls[n].state = "open"
        /\ pulls' = [pulls EXCEPT ![n].state = "closed"]
    /\ agent' = NoRun
    /\ UNCHANGED <<program, loop>>

ScriptNext == PullRequestEvent \/ PushEvent \/ OtherEvent \/ OpenPr \/ ClosePr

ScriptSpec == ScriptInit /\ [][ScriptNext]_vars

(* ------------------------- the PR agent: claims ------------------------ *)

\* a and b are one letter, whatever the case
SameLetter(a, b) ==
    \/ a = b
    \/ a \in DOMAIN ToUpper /\ ToUpper[a] = b
    \/ b \in DOMAIN ToUpper /\ ToUpper[b] = a

\* msg holds the phrase, whatever the case of its letters
Mentions(msg, phrase) ==
    /\ phrase # <<>>
    /\ \E k \in 0..(Len(msg) - Len(phrase)) :
        \A j \in DOMAIN phrase : SameLetter(msg[k + j], phrase[j])

\* the agent handled a push
PushHandled == agent.event = "push" /\ agent.outcome # "exit 1"

\* C25: no two open pull requests share a head branch. A handled push
\* creates a pull request only when none is open for its head, and otherwise
\* works on the open one; a push to the base or default branch, or one none
\* of whose commit messages holds the trigger phrase, creates none and does
\* not call the assistant.
C25_PrCreationDeduplicated ==
    /\ \A m \in DOMAIN pulls, n \in DOMAIN pulls :
        (m # n /\ pulls[m].state = "open" /\ pulls[n].state = "open")
            => pulls[m].head # pulls[n].head
    /\ PushHandled =>
        /\ agent.created =>
            /\ agent.number = Len(pulls)
            /\ open_prs(pulls, agent.head) = {agent.number}
        /\ (agent.assistant /\ ~agent.created) =>
            /\ agent.number \in open_prs(pulls, agent.head)
            /\ agent.number <= Len(pulls)
        /\ (\/ agent.head \in {agent.base, default_branch}
            \/ \A i \in DOMAIN agent.commits : ~Mentions(agent.commits[i], agent.phrase))
            => (~agent.created /\ ~agent.assistant)

\* a later push found the pull request that an earlier push had opened after
\* the first one for the branch was closed
C25_Witness ==
    /\ PushHandled
    /\ agent.assistant
    /\ ~agent.created
    /\ Len(pulls) = 2
    /\ pulls[1].state = "closed"
    /\ pulls[1].head = agent.head
    /\ agent.number = 2

(* --------------- the assistant at work on one pull request ------------- *)

\* elements of a pull request body the assistant still works on
MaxBody == 12

\* what call_openai returns for the description
AiTexts ==
    PlainTexts
    \cup {<<"Fixes the logout.">>,
          <<"Splits on '", Backslash, "n", "'.">>,
          <<"Matches ", Backslash, "d", "+.">>,
          <<"Ends with ", DESC_MARKER_END, ".">>}

\* the bodies people give their pull requests
UserBodies == {<<>>, <<" ">>, <<"Fixes #12.">>}

AssistantInit ==
    /\ AtRest
    /\ pulls \in {<<PullRequest("feature", body)>> : body \in UserBodies}
    /\ agent = NoRun
    /\ loop = NoLoop

\* scripts/ai_pr_assistant.py runs on the pull request
AssistantRun ==
    /\ Len(pulls[1].body) <= MaxBody
    /\ \E ai_desc \in AiTexts, edit_ok \in BOOLEAN :
        LET a == assistant_main(pulls, 1, ai_desc, edit_ok)
        IN /\ pulls' = a.pulls
           /\ agent' = Assisted(AgentRun("pull_request", pulls[1].head, default_branch,
                                         <<>>, DefaultPhrase, "enriched"), 1, a)
    /\ UNCHANGED <<program, loop>>

AssistantNext == AssistantRun

AssistantSpec == AssistantInit /\ [][AssistantNext]_vars

(* ------------------------ the assistant: claims ------------------------ *)

\* the body u a person wrote, with c as its AI section
WithSection(u, c) ==
    u \o (IF \A i \in DOMAIN u : u[i] \in Whitespace THEN <<>> ELSE <<"\n", "\n", "---", "\n", "\n">>)
    \o <<DESC_MARKER_BEGIN, "\n">> \o c \o <<"\n", DESC_MARKER_END>>

\* the assistant has put a description into the body
Upserted == agent.event # "none" /\ agent.assistant /\ agent.edited

\* C26: upserting a content into a body twice gives what upserting it once
\* gives; and a body that had no markers holds, after any number of upserts,
\* its own text and after it one marker block with the content upserted last.
C26_UpsertIdempotent ==
    Upserted =>
        /\ LET again == upsert_block(pulls[1].body, agent.ai_desc)
           IN ~again.raised /\ again.value = pulls[1].body
        /\ \E u \in UserBodies : pulls[1].body = WithSection(u, agent.ai_desc)

(* ----------------------- the prompts of a pull request ----------------- *)

Chars_added == <<"a", "d", "d", "e", "d">>

Chars_modified == <<"m", "o", "d", "i", "f", "i", "e", "d">>

\* files as GitHub lists them: two without a patch, one with
PrFiles ==
    {PrFile("logo.png", Chars_added, 0, None),
     PrFile("dump.sql", Chars_modified, 12, None),
     PrFile("app.py", Chars_modified, 1, PyStr(<<"@@ -1 +1 @@", "\n", "+import os">>))}

PrFileLists ==
    {<<>>} \cup {<<f>> : f \in PrFiles} \cup {<<f, g>> : f \in PrFiles, g \in PrFiles}

\* the commit messages of a pull request
PrCommits == {<<>>, << <<" ">> >>, << <<"Add logo">>, <<"Fix typo">> >>}

\* MAX_DIFF_CHARS
MaxDiffChars == {3, DefaultMaxDiffChars}

PromptInit ==
    /\ AtRest
    /\ pulls = <<>>
    /\ agent \in {[event |-> "files", files |-> files, commits |-> commits, max_chars |-> max_chars] :
                    files \in PrFileLists, commits \in PrCommits, max_chars \in MaxDiffChars}
    /\ loop = NoLoop

\* the assistant and the two generator scripts settle on their prompts
MakePrompts ==
    /\ agent.event = "files"
    /\ LET ctx == gather_pr_context(agent.files, agent.commits, agent.max_chars)
       IN agent' =
            [event |-> "prompts", files |-> agent.files, commits |-> agent.commits,
             max_chars |-> agent.max_chars,
             description |-> make_description_prompt(ctx.diff_snippet, ctx.file_summaries,
                                                     ctx.commit_messages),
             review |-> make_review_prompt(ctx.diff_snippet, ctx.file_summaries,
                                           ctx.commit_messages),
             description_script |-> generate_pr_description_prompt(agent.files, agent.commits),
             review_script |-> generate_code_review_prompt(agent.files, agent.commits)]
    /\ UNCHANGED <<program, pulls, loop>>

PromptNext == MakePrompts

PromptSpec == PromptInit /\ [][PromptNext]_vars

(* -------------------------- the prompts: claims ------------------------ *)

\* the prompt the fallback order asks for
PromptKind(files, commits) ==
    IF \E i \in DOMAIN files : files[i].patch # None THEN "diff"
    ELSE IF files # <<>> THEN "files"
    ELSE IF \E i \in DOMAIN commits : \E j \in DOMAIN commits[i] : commits[i][j] \notin Whitespace
    THEN "commits"
    ELSE "template"

\* C24: the description and review prompts are the diff prompt when some
\* file has a patch, else the file-summary prompt when the pull request has
\* files, else the commit-message prompt when it has commit messages, else
\* the template; files that all lack a patch get the file-summary prompt.
C24_PromptFallbackOrder ==
    agent.event = "prompts" =>
        LET kind == PromptKind(agent.files, agent.commits)
        IN /\ Head(agent.description) = DescriptionPrompts[kind]
           /\ Head(agent.review) = ReviewPrompts[kind]
           /\ Head(agent.description_script) = DescriptionPrompts[kind]
           /\ Head(agent.review_script) = ReviewPrompts[kind]

(* ----------------- main.py, test.py: the interactive loops ------------- *)

\* lines and interrupts on the input stream before it ends
MaxInput == 2

Line(text) == [kind |-> "line", text |-> text]

\* the user presses Ctrl-C at the prompt
Interrupt == [kind |-> "interrupt", text |-> <<>>]

InputItems ==
    {Interrupt,
     Line(<<" ">>),
     Line(<<" ", "Q", "u", "i", "t">>),
     Line(<<"e", "x", "i", "t">>),
     Line(<<"t", "a", "b", "l", "e", "s">>),
     Line(<<"s", "q", "l", " ", "x">>),
     Line(<<"h", "i">>)}

InputStreams == UNION {[1..n -> InputItems] : n \in 0..MaxInput}

\* how handling a command ends: it returns, an engine call or format_results
\* raises, or the user presses Ctrl-C meanwhile
HandlerOutcomes == {"returned", "raised", "interrupted"}

Reading(script, stdin, last) ==
    [program |-> script, pc |-> "input", stdin |-> stdin, last |-> last]

Exited(script, stdin, last) ==
    [program |-> script, pc |-> "exited", stdin |-> stdin, last |-> last]

\* the command is handled inside the try
handled(script, stdin, command, outcome) ==
    CASE outcome = "returned" -> Reading(script, stdin, command)
      [] outcome = "raised" -> Reading(script, stdin, "error")
      [] outcome = "interrupted" -> Exited(script, stdin, "interrupt")

\* one pass of `while True` in run_interactive_mode
main_loop(l, outcome) ==
    IF l.stdin = <<>> THEN Reading(l.program, <<>>, "eof")
    ELSE LET rest == Tail(l.stdin)
             user_input == strip(Head(l.stdin).text)
         IN IF Head(l.stdin).kind = "interrupt" THEN Exited(l.program, rest, "interrupt")
            ELSE IF user_input = <<>> THEN Reading(l.program, rest, "empty")
            ELSE IF lower(user_input) = <<"q", "u", "i", "t">> THEN Exited(l.program, rest, "quit")
            ELSE IF lower(user_input) = <<"t", "a", "b", "l", "e", "s">>
            THEN handled(l.program, rest, "tables", outcome)
            ELSE IF startswith(lower(user_input), <<"p", "r", "e", "v", "i", "e", "w", " ">>)
            THEN handled(l.program, rest, "preview", outcome)
            ELSE IF startswith(lower(user_input), <<"s", "q", "l", " ">>)
            THEN handled(l.program, rest, "sql", outcome)
            ELSE handled(l.program, rest, "natural", outcome)

\* one pass of `while True` in run_interactive_query_test: a failing engine
\* call is caught where it is made
test_loop(l, outcome) ==
    IF l.stdin = <<>> THEN Exited(l.program, <<>>, "eof")
    ELSE LET rest == Tail(l.stdin)
             query == strip(Head(l.stdin).text)
         IN IF Head(l.stdin).kind = "interrupt" THEN Exited(l.program, rest, "interrupt")
            ELSE IF lower(query) \in {<<"q", "u", "i", "t">>, <<"e", "x", "i", "t">>, <<"q">>}
            THEN Exited(l.program, rest, "quit")
            ELSE IF query = <<>> THEN Reading(l.program, rest, "empty")
            ELSE IF startswith(lower(query), <<"s", "q", "l", ":">>)
            THEN handled(l.program, rest, "sql", outcome)
            ELSE IF startswith(lower(query), <<"n", "l", ":">>)
            THEN handled(l.program, rest, "natural", outcome)
            ELSE handled(l.program, rest, "auto", outcome)

LoopInit ==
    /\ AtRest
    /\ pulls = <<>>
    /\ agent = NoRun
    /\ loop \in {Reading(script, stdin, "start") :
                    script \in {"main.py", "test.py"}, stdin \in InputStreams}

MainLoop ==
    /\ loop.program = "main.py"
    /\ loop.pc = "input"
    /\ \E outcome \in HandlerOutcomes : loop' = main_loop(loop, outcome)
    /\ UNCHANGED <<program, pulls, agent>>

TestLoop ==
    /\ loop.program = "test.py"
    /\ loop.pc = "input"
    /\ \E outcome \in HandlerOutcomes : loop' = test_loop(loop, outcome)
    /\ UNCHANGED <<program, pulls, agent>>

LoopNext == MainLoop \/ TestLoop

LoopSpec == LoopInit /\ [][LoopNext]_vars

(* ----------------------- the interactive loop: claims ------------------ *)

\* C27: the loop of main.py has exited once it read 'quit', was interrupted
\* or found its input at an end, and it is at the prompt again after a
\* command whose handling raised an error.
C27_LoopEndsWithInput ==
    loop.program = "main.py" =>
        /\ loop.last \in {"quit", "interrupt", "eof"} => loop.pc = "exited"
        /\ loop.last = "error" => loop.pc = "input"

(* ------------------------ the two managers: claims --------------------- *)

\* the call is in the log
Called(log, name) == \E i \in DOMAIN log : log[i].call = name

\* DatabaseManager.execute_query sent its statement
RemoteExecuted ==
    /\ op = "DatabaseManager.execute_query"
    /\ Called(exec.out.calls, "execute")

\* C29: DatabaseManager.execute_query and LocalDatabaseManager.execute_query
\* take the same statements for reads: given one statement and one answer of
\* the server, both fetch rows or both commit and report the affected rows.
C29_ManagersEquivalent ==
    RemoteExecuted =>
        LET local == LocalDatabaseManager_execute_query("open", exec.query, exec.drv)
        IN /\ IsRead_remote(exec.query) <=> IsRead_local(exec.query)
           /\ Called(exec.out.calls, "commit") <=> Called(local.calls, "commit")
           /\ Called(exec.out.calls, "fetchall") <=> Called(local.calls, "fetchall")

(* ---------------------- the manager's guard: claims ------------------- *)

\* a method of the manager was called while the manager held no open connection
CalledOutsideContext == op \in ManagerMethods /\ args.connection # "open"

\* C30: called on a manager that was never entered, or was exited, each of
\* execute_query, get_table_info and get_database_info raises the 'No active
\* database connection' error, makes no call to the driver and leaves the
\* manager's connection as it was.
C30_NoCallOutsideContext ==
    CalledOutsideContext =>
        /\ escaped = Exc("RuntimeError", NoConnectionMsg)
        /\ calls = <<>>
        /\ connection = args.connection

\* get_database_info was called on a manager that had been entered and exited
C30_Witness ==
    /\ CalledOutsideContext
    /\ op = "LocalDatabaseManager.get_database_info"
    /\ args.connection = "closed"
    /\ escaped.type = "RuntimeError"

====
